---- MODULE Spec2Model ----
(***************************************************************************)
(* A model of the ton-index-cpp worker.                                    *)
(*                                                                         *)
(* Part 1 (specification Spec): the IndexScheduler actor.  Its fields are  *)
(* those of the class declaration (IndexScheduler.h); the bodies of its    *)
(* handlers are written from the design document, section 4.1, because the *)
(* repository's IndexScheduler.cpp is not among the sources.               *)
(*                                                                         *)
(* Part 2 (specification SpecDetect): the four smart-contract interface    *)
(* detectors with their entity caches, from InterfaceDetectors.hpp.        *)
(***************************************************************************)
EXTENDS Integers, FiniteSets, Sequences, TLC

(***************************************************************************)
(* Bounds of the model.                                                    *)
(***************************************************************************)
\* the masterchain never grows past this seqno in the model
MaxSeqno == 3
\* the stages of the pipelines fail at most this many times in a run
MaxFailures == 1

Seqnos == 1..MaxSeqno

(***************************************************************************)
(* Configuration of the scheduler.  The fields default to 32, 16384,       *)
(* 16384, 524288 and 524288; all of them are configuration-driven, and the *)
(* model runs the scheduler with small values so that every cap binds      *)
(* (max_queue_txs = 10 with 5 estimated transactions per seqno is the      *)
(* backpressure scenario of the design document).                          *)
(***************************************************************************)
max_active_tasks_ == 2
max_queue_mc_blocks_ == 4
max_queue_blocks_ == 4
max_queue_txs_ == 10
max_queue_msgs_ == 20

Queues == {"mc_blocks", "blocks", "txs", "msgs"}

MaxQueue == [mc_blocks |-> max_queue_mc_blocks_, blocks |-> max_queue_blocks_,
             txs |-> max_queue_txs_, msgs |-> max_queue_msgs_]

\* the reserved contribution of one in-flight seqno to each queue is a rolling
\* average over the seqnos seen: small blocks, or the blocks of the
\* backpressure scenario (5 transactions per seqno)
Estimates == {[mc_blocks |-> 1, blocks |-> 1, txs |-> 1, msgs |-> 1],
              [mc_blocks |-> 1, blocks |-> 2, txs |-> 5, msgs |-> 10]}

\* QueueStatus as the queue monitor can report it: empty, or the depths of
\* the backpressure scenario (8 queued transactions)
EmptyQueueStatus == [mc_blocks |-> 0, blocks |-> 0, txs |-> 0, msgs |-> 0]

QueueStatuses == {EmptyQueueStatus,
                  [mc_blocks |-> 1, blocks |-> 1, txs |-> 8, msgs |-> 8],
                  [mc_blocks |-> 1, blocks |-> 1, txs |-> 0, msgs |-> 0]}

\* the states of a seqno's pipeline
Stages == {"queued", "fetching", "parsing", "detecting", "awaiting_admission",
           "inserting", "done"}

InFlight == {"fetching", "parsing", "detecting", "awaiting_admission", "inserting"}

VARIABLES
  \* ---- IndexScheduler ----
  queued_seqnos_,       \* seqnos returned to the queue, not yet restarted
  processing_seqnos_,   \* seqnos whose pipeline is in flight
  existing_seqnos_,     \* seqnos durably indexed
  last_known_seqno_,    \* the chain tip as last read
  last_indexed_seqno_,  \* end of the contiguous prefix of existing_seqnos_
  cur_queue_status_,    \* the insert queue's depths as last read
  reserved_,            \* the estimated contribution of one in-flight seqno
  stage,                \* the pipeline state of every seqno
  failures,             \* how many stage failures have happened
  backoff,              \* seqnos whose retry delay is still running
  started,              \* which of the two start-up replies have arrived
  \* ---- insert manager (external) ----
  insert_queue,         \* seqnos queued in the insert manager
  durable,              \* seqnos the insert manager has committed
  inserted_promises,    \* completed inserted-continuations not yet handled
  \* ---- observation ----
  initial_existing,     \* the set got_existing_seqnos delivered
  dispatched,           \* seqnos for which fetch was ever dispatched
  last_pass,            \* the seqnos the latest scheduling pass dispatched
  pass_tick,            \* flips at every scheduling pass
  done_count,           \* how often each seqno was reported done
  \* ---- InterfaceManager, the detectors and their CacheManagers ----
  interface_cache_,     \* InterfaceManager::cache_: (code hash, tag) -> verdict
  entity_cache_,        \* CacheManager<T>::cache_ of every detector
  db,                   \* the entities the insert manager holds
  call,                 \* the detect call in flight and the handler it waits for
  result,               \* how the latest completed detect call ended
  calls_made,           \* detect calls started
  verdicts_set,         \* set_interface calls handled
  \* ---- the event parsers of JettonWalletDetector and NFTItemDetector ----
  event_call,           \* the parse call in flight and the handler it waits for
  event_result,         \* how the latest completed parse call ended
  \* ---- McBlockEmulator ----
  block_of,             \* the masterchain block each transaction is in (0: none yet)
  interblock_trace_ids_, \* out-message hash -> trace id, kept across blocks
  mc,                   \* the McBlockEmulator of the latest block: position, txs_, shard blocks left
  initial_msg_hash,     \* tx.initial_msg_hash as process_txs assigned it
  trace_ids_in_progress_,
  emulation,            \* per starting transaction: the stage of its TraceTailEmulator
  traces_cnt_,
  \* ---- TraceTailEmulator and its TraceEmulatorImpl workers ----
  tail,                 \* the TraceTailEmulator: position, tx_, tx_by_in_msg_hash_, the handler running
  nodes,                \* the TraceNodes built so far
  mailbox,              \* emulate_tx calls sent to the TraceTailEmulator
  emulator_actors_,     \* the addresses a TraceEmulatorImpl exists for
  actors_created,       \* per address: TraceEmulatorImpl actors created
  queue,                \* per address: emulate requests sent to its worker
  worker,               \* per address: the position of its worker
  emulated_accounts_,   \* per address: emulations applied to the account
  emulated_accounts_mutex_, \* who holds the mutex
  last_access,          \* the latest access of one of the shared maps
  asked,                \* per address: the requests in the order they were sent
  served,               \* per address: the requests in the order they were emulated
  children,             \* per observed node: trace_node->children, a null slot is None
  child_write,          \* the latest write of a slot children[child_ind]
  \* ---- TaskResultInserter: the key-value store of one trace id ----
  kv_tx,                \* hash of the trace id: in-message hash -> packed node
  kv_interfaces,        \* hash of the trace id: the addresses with an interfaces field
  kv_by_addr,           \* sorted sets by address: the members <<address, in-message hash>>
  insert_result,        \* the latest insert: its trace and how its promise ended
  \* ---- ShardStateScanner ----
  scanner,              \* the scan of one shard state: cursor, queue_, batches in flight, what is persisted
  \* ---- ton-emulate-go: models/convert.go ----
  conversion            \* the latest call of ConvertHsetToTraceNodeShort: its hset and what it returned

sched_vars == <<queued_seqnos_, processing_seqnos_, existing_seqnos_,
                last_known_seqno_, last_indexed_seqno_, cur_queue_status_,
                reserved_, stage, failures, backoff, started, insert_queue, durable,
                inserted_promises, initial_existing, dispatched, last_pass,
                pass_tick, done_count>>

detect_vars == <<interface_cache_, entity_cache_, db, call, result, calls_made,
                 verdicts_set>>

event_vars == <<event_call, event_result>>

\* the variables of the components other than the scheduler and the detectors
block_vars == <<block_of, interblock_trace_ids_, mc, initial_msg_hash,
                trace_ids_in_progress_, emulation, traces_cnt_>>

tail_vars == <<tail, nodes, mailbox, emulator_actors_, actors_created, queue, worker,
               emulated_accounts_, emulated_accounts_mutex_, last_access, asked,
               served, children, child_write>>

kv_vars == <<kv_tx, kv_interfaces, kv_by_addr, insert_result>>

scan_vars == <<scanner>>

convert_vars == <<conversion>>

ext_vars == <<event_vars, block_vars, tail_vars, kv_vars, scan_vars, convert_vars>>

vars == <<sched_vars, detect_vars, ext_vars>>

(***************************************************************************)
(* Helpers of the scheduler.                                               *)
(***************************************************************************)
SetMin(S) == CHOOSE x \in S : \A y \in S : x <= y

SetMax(S) == CHOOSE x \in S : \A y \in S : y <= x

\* mutant: the highest seqno of the set instead of the end of its prefix
ContiguousPrefix_Max(S) == SetMax(S \cup {0})

\* the upper end of the largest contiguous prefix 1..n of a set of seqnos
ContiguousPrefix(S) == SetMax({n \in 0..MaxSeqno : \A k \in 1..n : k \in S})

\* mutant: the candidate itself is not counted
AdmissionOk_NoCandidate(nproc, qs, est) ==
  \A q \in Queues : qs[q] + est[q] * nproc <= MaxQueue[q]

\* admission: the projected depth of every queue, with the candidate counted
\* among the in-flight seqnos, stays within the queue's cap
AdmissionOk(nproc, qs, est) ==
  \A q \in Queues : qs[q] + est[q] * (nproc + 1) <= MaxQueue[q]

\* mutant: seqnos already indexed are not excluded
Candidates_IgnoreExisting(proc, lk) ==
  {s \in Seqnos : /\ s > last_indexed_seqno_
                  /\ s <= lk
                  /\ s \notin proc
                  /\ s \notin backoff}

\* the seqnos that may be dispatched: above last_indexed_seqno_, not above the
\* chain tip, neither indexed nor in flight, and not waiting out a retry delay
Candidates(proc, lk) ==
  {s \in Seqnos : /\ s > last_indexed_seqno_
                  /\ s <= lk
                  /\ s \notin existing_seqnos_ \cup proc
                  /\ s \notin backoff}

\* mutant: the loop admits one task too many
RECURSIVE schedule_next_seqnos_OffByOne(_, _, _, _)
schedule_next_seqnos_OffByOne(proc, lk, qs, est) ==
  IF /\ Cardinality(proc) <= max_active_tasks_
     /\ AdmissionOk(Cardinality(proc), qs, est)
     /\ Candidates(proc, lk) # {}
  THEN schedule_next_seqnos_OffByOne(proc \cup {SetMin(Candidates(proc, lk))}, lk, qs, est)
  ELSE proc

\* mutant: the loop selects the highest candidate
RECURSIVE schedule_next_seqnos_HighestFirst(_, _, _, _)
schedule_next_seqnos_HighestFirst(proc, lk, qs, est) ==
  IF /\ Cardinality(proc) < max_active_tasks_
     /\ AdmissionOk(Cardinality(proc), qs, est)
     /\ Candidates(proc, lk) # {}
  THEN schedule_next_seqnos_HighestFirst(proc \cup {SetMax(Candidates(proc, lk))}, lk, qs, est)
  ELSE proc

\* schedule_next_seqnos: the loop of one scheduling pass; the value is the
\* processing set when the loop ends
RECURSIVE schedule_next_seqnos(_, _, _, _)
schedule_next_seqnos(proc, lk, qs, est) ==
  IF /\ Cardinality(proc) < max_active_tasks_
     /\ AdmissionOk(Cardinality(proc), qs, est)
     /\ Candidates(proc, lk) # {}
  THEN schedule_next_seqnos(proc \cup {SetMin(Candidates(proc, lk))}, lk, qs, est)
  ELSE proc

(***************************************************************************)
(* Start-up: the existing seqnos and the chain tip are requested           *)
(* concurrently; scheduling begins when both have arrived.                 *)
(***************************************************************************)
SchedInit ==
  /\ queued_seqnos_ = {}
  /\ processing_seqnos_ = {}
  /\ existing_seqnos_ = {}
  /\ last_known_seqno_ = 0
  /\ last_indexed_seqno_ = 0
  /\ cur_queue_status_ = EmptyQueueStatus
  /\ reserved_ = [q \in Queues |-> 0]
  /\ stage = [s \in Seqnos |-> "queued"]
  /\ failures = 0
  /\ backoff = {}
  /\ started = {}
  /\ insert_queue = {}
  /\ durable = {}
  /\ inserted_promises = {}
  /\ initial_existing = {}
  /\ dispatched = {}
  /\ last_pass = {}
  /\ pass_tick = FALSE
  /\ done_count = [s \in Seqnos |-> 0]

\* the insert manager answers get_existing_seqnos: every seqno it reports was
\* indexed from the chain, so none is above a tip already read
got_existing_seqnos(E) ==
  /\ "existing" \notin started
  /\ "tip" \in started => \A s \in E : s <= last_known_seqno_
  /\ existing_seqnos_' = E
  /\ initial_existing' = E
  /\ durable' = E
  /\ stage' = [s \in Seqnos |-> IF s \in E THEN "done" ELSE stage[s]]
  /\ started' = started \cup {"existing"}
  /\ UNCHANGED <<queued_seqnos_, processing_seqnos_, last_known_seqno_,
                 last_indexed_seqno_, cur_queue_status_, reserved_, failures, backoff,
                 insert_queue, inserted_promises, dispatched, last_pass, pass_tick,
                 done_count>>
  /\ UNCHANGED <<detect_vars, ext_vars>>

\* the chain reader answers the first get_last_masterchain_seqno
got_last_known_seqno(t) ==
  /\ "tip" \notin started
  /\ \A s \in existing_seqnos_ : s <= t
  /\ last_known_seqno_' = t
  /\ started' = started \cup {"tip"}
  /\ UNCHANGED <<queued_seqnos_, processing_seqnos_, existing_seqnos_,
                 last_indexed_seqno_, cur_queue_status_, reserved_, stage, failures,
                 backoff, insert_queue, durable, inserted_promises,
                 initial_existing, dispatched, last_pass, pass_tick, done_count>>
  /\ UNCHANGED <<detect_vars, ext_vars>>

(***************************************************************************)
(* The alarm: refresh the chain tip and the queue status, then run one     *)
(* scheduling pass.  The tip never moves back.                             *)
(***************************************************************************)
alarm(t, qs, est) ==
  /\ started = {"existing", "tip"}
  /\ t >= last_known_seqno_
  /\ pass_tick' = ~pass_tick
  /\ LET proc == schedule_next_seqnos(processing_seqnos_, t, qs, est)
         new == proc \ processing_seqnos_
     IN /\ last_known_seqno_' = t
        /\ cur_queue_status_' = qs
        /\ reserved_' = est
        /\ processing_seqnos_' = proc
        /\ queued_seqnos_' = queued_seqnos_ \ new
        /\ stage' = [s \in Seqnos |-> IF s \in new THEN "fetching" ELSE stage[s]]
        /\ dispatched' = dispatched \cup new
        /\ last_pass' = new
  /\ UNCHANGED <<existing_seqnos_, last_indexed_seqno_, failures, backoff,
                 started, insert_queue, durable, inserted_promises,
                 initial_existing, done_count>>
  /\ UNCHANGED <<detect_vars, ext_vars>>

(***************************************************************************)
(* The pipeline of one seqno: every completion resumes it in the           *)
(* scheduler actor.                                                        *)
(***************************************************************************)
\* mutant: a fetched block is submitted for interface detection unparsed
NextStage_SkipParse(st) ==
  CASE st = "fetching" -> "detecting"
    [] st = "parsing" -> "detecting"
    [] st = "detecting" -> "awaiting_admission"
    [] st = "awaiting_admission" -> "inserting"
    [] st = "inserting" -> "done"
    [] OTHER -> st

\* the stage a completion of stage st leads to
NextStage(st) ==
  CASE st = "fetching" -> "parsing"
    [] st = "parsing" -> "detecting"
    [] st = "detecting" -> "awaiting_admission"
    [] st = "awaiting_admission" -> "inserting"
    [] st = "inserting" -> "done"
    [] OTHER -> st

\* the block was fetched: hand it to the parse manager
seqno_fetched(s) ==
  /\ stage[s] = "fetching"
  /\ stage' = [stage EXCEPT ![s] = NextStage("fetching")]
  /\ UNCHANGED <<queued_seqnos_, processing_seqnos_, existing_seqnos_,
                 last_known_seqno_, last_indexed_seqno_, cur_queue_status_, reserved_,
                 failures, backoff, started, insert_queue, durable,
                 inserted_promises, initial_existing, dispatched, last_pass, pass_tick,
                 done_count>>
  /\ UNCHANGED <<detect_vars, ext_vars>>

\* the block was parsed: hand it to the event processor (interface detection)
seqno_parsed(s) ==
  /\ stage[s] = "parsing"
  /\ stage' = [stage EXCEPT ![s] = NextStage("parsing")]
  /\ UNCHANGED <<queued_seqnos_, processing_seqnos_, existing_seqnos_,
                 last_known_seqno_, last_indexed_seqno_, cur_queue_status_, reserved_,
                 failures, backoff, started, insert_queue, durable,
                 inserted_promises, initial_existing, dispatched, last_pass, pass_tick,
                 done_count>>
  /\ UNCHANGED <<detect_vars, ext_vars>>

\* the interfaces were detected: submit the block to the insert manager
seqno_interfaces_processed(s) ==
  /\ stage[s] = "detecting"
  /\ stage' = [stage EXCEPT ![s] = NextStage("detecting")]
  /\ insert_queue' = insert_queue \cup {s}
  /\ UNCHANGED <<queued_seqnos_, processing_seqnos_, existing_seqnos_,
                 last_known_seqno_, last_indexed_seqno_, cur_queue_status_, reserved_,
                 failures, backoff, started, durable, inserted_promises,
                 initial_existing, dispatched, last_pass, pass_tick, done_count>>
  /\ UNCHANGED <<detect_vars, ext_vars>>

\* the insert manager has queued the block and returns its queue status
seqno_queued_to_insert(s, status) ==
  /\ stage[s] = "awaiting_admission"
  /\ stage' = [stage EXCEPT ![s] = NextStage("awaiting_admission")]
  /\ cur_queue_status_' = status
  /\ UNCHANGED <<reserved_, queued_seqnos_, processing_seqnos_, existing_seqnos_,
                 last_known_seqno_, last_indexed_seqno_, failures, backoff,
                 started, insert_queue, durable, inserted_promises,
                 initial_existing, dispatched, last_pass, pass_tick, done_count>>
  /\ UNCHANGED <<detect_vars, ext_vars>>

\* the insert manager commits the block and completes the inserted-continuation
insert_batch_finished(s) ==
  /\ s \in insert_queue
  /\ stage[s] = "inserting"
  /\ insert_queue' = insert_queue \ {s}
  /\ durable' = durable \cup {s}
  /\ inserted_promises' = inserted_promises \cup {s}
  /\ UNCHANGED <<queued_seqnos_, processing_seqnos_, existing_seqnos_,
                 last_known_seqno_, last_indexed_seqno_, cur_queue_status_, reserved_,
                 stage, failures, backoff, started, initial_existing,
                 dispatched, last_pass, pass_tick, done_count>>
  /\ UNCHANGED <<detect_vars, ext_vars>>

\* mutant: s is reported done as soon as it is queued in the insert manager
seqno_inserted_OnQueued(s) ==
  /\ stage[s] = "inserting"
  /\ inserted_promises' = inserted_promises \ {s}
  /\ processing_seqnos_' = processing_seqnos_ \ {s}
  /\ existing_seqnos_' = existing_seqnos_ \cup {s}
  /\ last_indexed_seqno_' = ContiguousPrefix(existing_seqnos_ \cup {s})
  /\ stage' = [stage EXCEPT ![s] = NextStage("inserting")]
  /\ done_count' = [done_count EXCEPT ![s] = @ + 1]
  /\ UNCHANGED <<queued_seqnos_, last_known_seqno_, cur_queue_status_, reserved_,
                 failures, backoff, started, insert_queue, durable,
                 initial_existing, dispatched, last_pass, pass_tick>>
  /\ UNCHANGED <<detect_vars, ext_vars>>

\* the inserted-continuation arrives: s is done
seqno_inserted(s) ==
  /\ s \in inserted_promises
  /\ stage[s] = "inserting"
  /\ inserted_promises' = inserted_promises \ {s}
  /\ processing_seqnos_' = processing_seqnos_ \ {s}
  /\ existing_seqnos_' = existing_seqnos_ \cup {s}
  /\ last_indexed_seqno_' = ContiguousPrefix(existing_seqnos_ \cup {s})
  /\ stage' = [stage EXCEPT ![s] = NextStage("inserting")]
  /\ done_count' = [done_count EXCEPT ![s] = @ + 1]
  /\ UNCHANGED <<queued_seqnos_, last_known_seqno_, cur_queue_status_, reserved_,
                 failures, backoff, started, insert_queue, durable,
                 initial_existing, dispatched, last_pass, pass_tick>>
  /\ UNCHANGED <<detect_vars, ext_vars>>

\* mutant: the failed seqno leaves processing and is not queued again
reschedule_seqno_Drop(s) ==
  /\ stage[s] \in InFlight
  /\ s \notin inserted_promises
  /\ failures < MaxFailures
  /\ processing_seqnos_' = processing_seqnos_ \ {s}
  /\ stage' = [stage EXCEPT ![s] = "queued"]
  /\ failures' = failures + 1
  /\ insert_queue' = insert_queue \ {s}
  /\ UNCHANGED <<queued_seqnos_, backoff, existing_seqnos_, last_known_seqno_,
                 last_indexed_seqno_, cur_queue_status_, reserved_, started, durable,
                 inserted_promises, initial_existing, dispatched, last_pass,
                 pass_tick, done_count>>
  /\ UNCHANGED <<detect_vars, ext_vars>>

\* a stage of s failed (fetch, parse, interface detection or insert): s goes
\* back to the queue and waits out its retry delay
reschedule_seqno(s) ==
  /\ stage[s] \in InFlight
  /\ s \notin inserted_promises
  /\ failures < MaxFailures
  /\ processing_seqnos_' = processing_seqnos_ \ {s}
  /\ queued_seqnos_' = queued_seqnos_ \cup {s}
  /\ stage' = [stage EXCEPT ![s] = "queued"]
  /\ failures' = failures + 1
  /\ backoff' = backoff \cup {s}
  /\ insert_queue' = insert_queue \ {s}
  /\ UNCHANGED <<existing_seqnos_, last_known_seqno_, last_indexed_seqno_,
                 cur_queue_status_, reserved_, started, durable, inserted_promises,
                 initial_existing, dispatched, last_pass, pass_tick, done_count>>
  /\ UNCHANGED <<detect_vars, ext_vars>>

\* the retry delay of s has passed
backoff_expired(s) ==
  /\ s \in backoff
  /\ backoff' = backoff \ {s}
  /\ UNCHANGED <<queued_seqnos_, processing_seqnos_, existing_seqnos_,
                 last_known_seqno_, last_indexed_seqno_, cur_queue_status_, reserved_,
                 stage, failures, started, insert_queue, durable,
                 inserted_promises, initial_existing, dispatched, last_pass, pass_tick,
                 done_count>>
  /\ UNCHANGED <<detect_vars, ext_vars>>

(***************************************************************************)
(* Part 2: InterfaceManager, CacheManager<T> and the four detectors.       *)
(*                                                                         *)
(* One detect call is followed through its handlers; the insert manager    *)
(* answers get_entity from db and applies upsert_entity to it.             *)
(***************************************************************************)
\* the logical times of the account states handed to detect are 1..MaxLt
MaxLt == 2
\* detect is called at most this many times in a run
MaxCalls == 2
\* set_interface is called at most this many times in a run
MaxSetInterface == 2

Kinds == {"JettonMaster", "JettonWallet", "NFTCollection", "NFTItem"}

Addrs == {"a1", "a2"}

\* code hashes: a contract with code c1 answers the getters, one with c2 does not
CodeHashes == {"c1", "c2"}

DataHashes == {"d1", "d2"}

Lts == 1..MaxLt

\* the accounts of the chain: a1 is a jetton wallet or an NFT item, a2 is a
\* jetton master or an NFT collection; the code handed to a detector says
\* whether the account answers the detector's getter
account(kind) == IF kind \in {"JettonWallet", "NFTItem"} THEN "a1" ELSE "a2"

\* what a hash field nobody assigned can hold: any hash, or none of them
Unassigned == CodeHashes \cup {"unassigned"}

Tags == {"IT_JETTON_MASTER", "IT_JETTON_WALLET", "IT_NFT_COLLECTION", "IT_NFT_ITEM"}

\* the tag each detector hands to check_interface
Tag(kind) ==
  CASE kind = "JettonMaster" -> "IT_JETTON_MASTER"
    [] kind = "JettonWallet" -> "IT_JETTON_WALLET"
    [] kind = "NFTCollection" -> "IT_NFT_COLLECTION"
    [] kind = "NFTItem" -> "IT_NFT_COLLECTION"

\* no entity: a cache or database miss, or the value of a failed call
NoEntity == [address |-> "-", code_hash |-> "-", data_hash |-> "-",
             last_transaction_lt |-> 0, code_boc |-> "-", data_boc |-> "-"]

NoEntities == [k \in Kinds |-> [a \in Addrs |-> NoEntity]]

\* td::Status: the error a promise is completed with, and the status of a
\* value
Status_Error(code, message) == [code |-> code, message |-> message]

Status_OK == Status_Error("OK", "-")

\* td::Result<T>: a value, or an error
Result_ok(value) == [error |-> Status_OK, value |-> value]

Result_error(error) == [error |-> error, value |-> "-"]

\* what the insert manager answers get_entity for an address it holds no
\* entity for, and what it answers when the query itself fails
NOT_FOUND_ERROR == Status_Error("NOT_FOUND_ERROR", "entity not found")

QueryFailed == Status_Error("OTHER_ERROR", "get_entity failed")

\* InsertManagerInterface::get_entity: the query fails, or the entity held
\* for the address is returned, or NOT_FOUND_ERROR
insert_manager_get_entity(kind, address, answers) ==
  IF ~answers THEN Result_error(QueryFailed)
  ELSE IF db[kind][address] = NoEntity THEN Result_error(NOT_FOUND_ERROR)
  ELSE Result_ok(db[kind][address])

Idle == [pc |-> "idle", kind |-> "-", address |-> "-", code |-> "-", data |-> "-",
         lt |-> 0, pre |-> NoEntity, verdict |-> "-", vm |-> 0, built |-> NoEntity]

NoResult == [kind |-> "-", address |-> "-", code |-> "-", data |-> "-", lt |-> 0,
             pre |-> NoEntity, verdict |-> "-", vm |-> 0, status |-> "-",
             value |-> NoEntity, error |-> Status_OK]

\* InterfaceManager::check_interface: the stored verdict, or NOT_FOUND_ERROR
check_interface(code_hash, interface) == interface_cache_[<<code_hash, interface>>]

\* mutant: the cached entity is returned only when the hashes are equal
CacheHit_HashesOnly(cached_data, code_hash, data_hash, last_tx_lt) ==
  data_hash = cached_data.data_hash /\ code_hash = cached_data.code_hash

\* mutant: the cached entity is also returned when it is as old as the request
CacheHit_OrEqual(cached_data, code_hash, data_hash, last_tx_lt) ==
  \/ (data_hash = cached_data.data_hash /\ code_hash = cached_data.code_hash)
  \/ last_tx_lt <= cached_data.last_transaction_lt

\* the test of detect_continue: the data did not change from the cached, or
\* the cached is more actual than requested
CacheHit(cached_data, code_hash, data_hash, last_tx_lt) ==
  \/ (data_hash = cached_data.data_hash /\ code_hash = cached_data.code_hash)
  \/ last_tx_lt < cached_data.last_transaction_lt

\* std::map::emplace: inserts only if the key is absent
emplace(cache, address, data) ==
  IF cache[address] = NoEntity THEN [cache EXCEPT ![address] = data] ELSE cache

\* smc.run_get_method of a getter that a master or a collection is asked
\* (get_wallet_address, get_nft_address_by_index, get_nft_content): it
\* succeeds, with a stack of the expected shape, for code c1 only
run_get_method(code_hash) == code_hash = "c1"

\* get_wallet_data, slot 2: the jetton master the wallet names
jetton(data_hash) == "a2"

\* get_nft_data, slot 2: the collection the item names (d1: a single NFT)
collection_address(data_hash) == IF data_hash = "d1" THEN "addr_none" ELSE "a2"

\* the master's get_wallet_address for the wallet's owner: a master with data
\* d1 names the wallet itself, one with data d2 another address
get_wallet_address_impl(master, wallet_address) ==
  IF master.data_boc = "d1" THEN wallet_address ELSE "other"

\* get_nft_address_by_index of the collection equals the item's address
verify_belonging_to_collection(item_address, collection_data) ==
  collection_data.data_boc = "d1"

\* the signature each detector expects of its getter: get_jetton_data,
\* get_wallet_data, get_collection_data, get_nft_data
return_types(kind) ==
  CASE kind = "JettonMaster" -> <<"t_int", "t_int", "t_slice", "t_cell", "t_cell">>
    [] kind = "JettonWallet" -> <<"t_int", "t_slice", "t_slice", "t_cell">>
    [] kind = "NFTCollection" -> <<"t_int", "t_cell", "t_slice">>
    [] kind = "NFTItem" -> <<"t_int", "t_int", "t_slice", "t_slice", "t_cell">>

\* what smc.run_get_method delivers for the detector's getter: code c1
\* implements the interface; with code c2 the VM fails on get_jetton_data,
\* get_wallet_data leaves a stack one slot short, get_collection_data leaves
\* a cell where a slice is expected, and get_nft_data leaves the stack of
\* get_jetton_data
smc_run_get_method(kind, code_hash) ==
  IF code_hash = "c1"
  THEN [success |-> TRUE, stack |-> return_types(kind)]
  ELSE CASE kind = "JettonMaster" -> [success |-> FALSE, stack |-> <<>>]
         [] kind = "JettonWallet" ->
              [success |-> TRUE, stack |-> <<"t_int", "t_slice", "t_slice">>]
         [] kind = "NFTCollection" ->
              [success |-> TRUE, stack |-> <<"t_int", "t_cell", "t_cell">>]
         [] kind = "NFTItem" ->
              [success |-> TRUE, stack |-> return_types("JettonMaster")]

\* the check of the stack without the loop over the types of the slots
stack_matches_DepthOnly(kind, res) ==
  res.success /\ Len(res.stack) = Len(return_types(kind))

\* the checks of detect_impl on the getter's result: success, depth, and the
\* type of every slot
stack_matches(kind, res) ==
  /\ res.success
  /\ Len(res.stack) = Len(return_types(kind))
  /\ \A i \in 1..Len(return_types(kind)) : res.stack[i] = return_types(kind)[i]

\* a master that an earlier run of the worker detected and upserted: its
\* get_wallet_address names another address than the wallet's
IndexedMaster ==
  [address |-> "a2", code_hash |-> "unassigned", data_hash |-> "d2",
   last_transaction_lt |-> 1, code_boc |-> "c1", data_boc |-> "d2"]

\* what the database holds when the worker starts: nothing, or that master
InitialDbs ==
  {NoEntities, [NoEntities EXCEPT !["JettonMaster"]["a2"] = IndexedMaster]}

DetectInit ==
  /\ interface_cache_ = [k \in CodeHashes \X Tags |-> "NOT_FOUND"]
  /\ entity_cache_ = NoEntities
  /\ db \in InitialDbs
  /\ call = Idle
  /\ result = NoResult
  /\ calls_made = 0
  /\ verdicts_set = 0

\* the promise of the detect call in flight is completed
Completed(status, value, error, verdict, vm) ==
  /\ result' = [kind |-> call.kind, address |-> call.address, code |-> call.code,
                data |-> call.data, lt |-> call.lt, pre |-> call.pre,
                verdict |-> verdict, vm |-> vm, status |-> status,
                value |-> value, error |-> error]
  /\ call' = Idle

\* the call in flight goes on to its next handler
Continue(pc) ==
  /\ call' = [call EXCEPT !.pc = pc]
  /\ UNCHANGED result

\* CacheManager<T>::add_to_cache on top of the cache contents cache: emplace
\* in the detector's cache and upsert_entity in the insert manager
add_to_cache(cache, kind, address, data) ==
  /\ entity_cache_' = [cache EXCEPT ![kind] = emplace(@, address, data)]
  /\ db' = [db EXCEPT ![kind][address] = data]

\* detect of every detector: ask the InterfaceManager about the code hash
detect(kind, address, code, data, lt) ==
  /\ call.pc = "idle"
  /\ calls_made < MaxCalls
  /\ call' = [Idle EXCEPT !.pc = "check_interface", !.kind = kind,
                          !.address = address, !.code = code, !.data = data,
                          !.lt = lt, !.pre = entity_cache_[kind][address]]
  /\ calls_made' = calls_made + 1
  /\ UNCHANGED <<interface_cache_, entity_cache_, db, result, verdicts_set>>
  /\ UNCHANGED <<sched_vars, ext_vars>>

\* InterfaceManager::check_interface answers, and the lambda of detect runs
detect_P ==
  /\ call.pc = "check_interface"
  /\ LET verdict == check_interface(call.code, Tag(call.kind))
     IN IF verdict = "false"
        THEN Completed("error", NoEntity,
                       Status_Error("SMC_INTERFACE_PARSE_ERROR",
                                    "Code hash is not of this interface"),
                       verdict, call.vm)
        ELSE /\ call' = [call EXCEPT !.pc = "detect_continue", !.verdict = verdict]
             /\ UNCHANGED result
  /\ UNCHANGED <<interface_cache_, entity_cache_, db, calls_made, verdicts_set>>
  /\ UNCHANGED <<sched_vars, ext_vars>>

\* detect_continue with check_cache: on a cache hit the lambda runs at once
detect_continue ==
  /\ call.pc = "detect_continue"
  /\ LET cached_data == entity_cache_[call.kind][call.address]
     IN IF cached_data = NoEntity
        THEN Continue("get_entity")
        ELSE IF CacheHit(cached_data, call.code, call.data, call.lt)
             THEN Completed("ok", cached_data, Status_OK, call.verdict, call.vm)
             ELSE Continue("detect_impl")
  /\ UNCHANGED <<interface_cache_, entity_cache_, db, calls_made, verdicts_set>>
  /\ UNCHANGED <<sched_vars, ext_vars>>

\* check_cache after a miss: the insert manager answers get_entity, the
\* entity found is put in the cache, and the lambda of detect_continue runs
get_entity ==
  /\ call.pc = "get_entity"
  /\ \E answers \in BOOLEAN :
       LET r_data == insert_manager_get_entity(call.kind, call.address, answers)
       IN IF r_data.error # Status_OK
          THEN /\ Continue("detect_impl")
               /\ UNCHANGED entity_cache_
          ELSE /\ entity_cache_' =
                    [entity_cache_ EXCEPT
                       ![call.kind] = emplace(@, call.address, r_data.value)]
               /\ IF CacheHit(r_data.value, call.code, call.data, call.lt)
                  THEN Completed("ok", r_data.value, Status_OK, call.verdict, call.vm)
                  ELSE Continue("detect_impl")
  /\ UNCHANGED <<interface_cache_, db, calls_made, verdicts_set>>
  /\ UNCHANGED <<sched_vars, ext_vars>>

\* the detectors whose detect_impl assigns no code_hash and keeps the cells
KeepsBoc == {"JettonMaster", "NFTCollection"}

\* detect_impl of every detector: run the getter, check the stack, build the
\* entity; a master or a collection is cached and returned, a wallet goes to
\* verify_belonging_to_master, an item of a collection to get_from_cache
detect_impl ==
  /\ call.pc = "detect_impl"
  /\ IF ~stack_matches(call.kind, smc_run_get_method(call.kind, call.code))
     THEN /\ Completed("error", NoEntity,
                    Status_Error("SMC_INTERFACE_PARSE_ERROR", "getter failed"),
                    call.verdict, call.vm + 1)
          /\ UNCHANGED <<entity_cache_, db>>
     ELSE \E h \in (IF call.kind \in KeepsBoc THEN Unassigned ELSE {call.code}) :
            LET data == [address |-> call.address,
                         code_hash |-> h,
                         data_hash |-> call.data,
                         last_transaction_lt |-> call.lt,
                         code_boc |-> IF call.kind \in KeepsBoc THEN call.code ELSE "-",
                         data_boc |-> IF call.kind \in KeepsBoc THEN call.data ELSE "-"]
            IN IF \/ call.kind \in KeepsBoc
                  \/ call.kind = "NFTItem" /\ collection_address(call.data) = "addr_none"
               THEN /\ add_to_cache(entity_cache_, call.kind, call.address, data)
                    /\ Completed("ok", data, Status_OK, call.verdict, call.vm + 1)
               ELSE /\ call' = [call EXCEPT
                                  !.pc = IF call.kind = "JettonWallet"
                                         THEN "get_wallet_address" ELSE "get_from_cache",
                                  !.vm = call.vm + 1, !.built = data]
                    /\ UNCHANGED <<entity_cache_, db, result>>
  /\ UNCHANGED <<interface_cache_, calls_made, verdicts_set>>
  /\ UNCHANGED <<sched_vars, ext_vars>>

\* verify_belonging_to_master without the comparison of the addresses
verify_belonging_to_master_P_AcceptsAll(cache, R, vm) ==
  /\ add_to_cache(cache, "JettonWallet", call.address, call.built)
  /\ Completed("ok", call.built, Status_OK, call.verdict, vm)

\* verify_belonging_to_master that caches the wallet before it compares
verify_belonging_to_master_P_CachesRejected(cache, R, vm) ==
  /\ add_to_cache(cache, "JettonWallet", call.address, call.built)
  /\ IF R.error = NOT_FOUND_ERROR \/ R.value = call.built.address
     THEN Completed("ok", call.built, Status_OK, call.verdict, vm)
     ELSE Completed("error", NoEntity,
                    IF R.error # Status_OK THEN R.error
                    ELSE Status_Error("SMC_INTERFACE_PARSE_ERROR",
                                      "Couldn't verify Jetton Wallet. Possibly scam."),
                    call.verdict, vm)

\* the lambda of verify_belonging_to_master, given what get_wallet_address
\* delivered: NOT_FOUND_ERROR (the master is not known: the wallet is accepted
\* as it is), another error, or the address the master names
verify_belonging_to_master_P(cache, R, vm) ==
  IF R.error = NOT_FOUND_ERROR \/ R.value = call.built.address
  THEN /\ add_to_cache(cache, "JettonWallet", call.address, call.built)
       /\ Completed("ok", call.built, Status_OK, call.verdict, vm)
  ELSE /\ entity_cache_' = cache
       /\ UNCHANGED db
       /\ Completed("error", NoEntity,
                    IF R.error # Status_OK THEN R.error
                    ELSE Status_Error("SMC_INTERFACE_PARSE_ERROR",
                                      "Couldn't verify Jetton Wallet. Possibly scam."),
                    call.verdict, vm)

\* what get_wallet_address_impl delivers for a master that was found
wallet_address_of(master) ==
  IF run_get_method(master.code_boc)
  THEN Result_ok(get_wallet_address_impl(master, call.address))
  ELSE Result_error(Status_Error("SMC_INTERFACE_PARSE_ERROR",
                                 "get_wallet_address failed"))

\* JettonMasterDetector::get_wallet_address with check_cache: on a cache hit
\* the master's getter runs at once
get_wallet_address ==
  /\ call.pc = "get_wallet_address"
  /\ LET master == entity_cache_["JettonMaster"][jetton(call.data)]
     IN IF master = NoEntity
        THEN /\ Continue("master_get_entity")
             /\ UNCHANGED <<entity_cache_, db>>
        ELSE verify_belonging_to_master_P(entity_cache_, wallet_address_of(master),
                                          call.vm + 1)
  /\ UNCHANGED <<interface_cache_, calls_made, verdicts_set>>
  /\ UNCHANGED <<sched_vars, ext_vars>>

\* the insert manager answers the master detector's get_entity
master_get_entity ==
  /\ call.pc = "master_get_entity"
  /\ \E answers \in BOOLEAN :
       LET r == insert_manager_get_entity("JettonMaster", jetton(call.data), answers)
       IN IF r.error # Status_OK
          THEN verify_belonging_to_master_P(entity_cache_, r, call.vm)
          ELSE verify_belonging_to_master_P(
                 [entity_cache_ EXCEPT
                    !["JettonMaster"] = emplace(@, jetton(call.data), r.value)],
                 wallet_address_of(r.value), call.vm + 1)
  /\ UNCHANGED <<interface_cache_, calls_made, verdicts_set>>
  /\ UNCHANGED <<sched_vars, ext_vars>>

\* the lambda of NFTItemDetector::detect_impl with every lookup error taken
\* for NOT_FOUND_ERROR
detect_impl_collection_P_AllNotIndexed(cache, collection_res) ==
  IF collection_res.error # Status_OK
  THEN /\ entity_cache_' = cache
       /\ UNCHANGED db
       /\ Completed("error", NoEntity,
                    Status_Error("SMC_INTERFACE_PARSE_ERROR",
                                 "Collection was not indexed yet"),
                    call.verdict, call.vm)
  ELSE /\ add_to_cache(cache, "NFTItem", call.address, call.built)
       /\ IF /\ run_get_method(collection_res.value.code_boc)
             /\ verify_belonging_to_collection(call.address, collection_res.value)
          THEN Completed("ok", call.built, Status_OK, call.verdict, call.vm + 2)
          ELSE Completed("error", NoEntity,
                         Status_Error("SMC_INTERFACE_PARSE_ERROR",
                                      "Failed to verify belonging to collection"),
                         call.verdict, call.vm + 2)

\* the lambda of NFTItemDetector::detect_impl, given the collection: get_content
\* and verify_belonging_to_collection each run a getter of the collection; a
\* failed verification sets the error and goes on to add_to_cache
detect_impl_collection_P(cache, collection_res) ==
  IF collection_res.error # Status_OK
  THEN /\ entity_cache_' = cache
       /\ UNCHANGED db
       /\ Completed("error", NoEntity,
                    IF collection_res.error = NOT_FOUND_ERROR
                    THEN Status_Error("SMC_INTERFACE_PARSE_ERROR",
                                      "Collection was not indexed yet")
                    ELSE collection_res.error,
                    call.verdict, call.vm)
  ELSE /\ add_to_cache(cache, "NFTItem", call.address, call.built)
       /\ IF /\ run_get_method(collection_res.value.code_boc)
             /\ verify_belonging_to_collection(call.address, collection_res.value)
          THEN Completed("ok", call.built, Status_OK, call.verdict, call.vm + 2)
          ELSE Completed("error", NoEntity,
                         Status_Error("SMC_INTERFACE_PARSE_ERROR",
                                      "Failed to verify belonging to collection"),
                         call.verdict, call.vm + 2)

\* NFTCollectionDetector::get_from_cache with check_cache
get_from_cache ==
  /\ call.pc = "get_from_cache"
  /\ LET collection_data ==
           entity_cache_["NFTCollection"][collection_address(call.data)]
     IN IF collection_data = NoEntity
        THEN /\ Continue("collection_get_entity")
             /\ UNCHANGED <<entity_cache_, db>>
        ELSE detect_impl_collection_P(entity_cache_, Result_ok(collection_data))
  /\ UNCHANGED <<interface_cache_, calls_made, verdicts_set>>
  /\ UNCHANGED <<sched_vars, ext_vars>>

\* the insert manager answers the collection detector's get_entity
collection_get_entity ==
  /\ call.pc = "collection_get_entity"
  /\ \E answers \in BOOLEAN :
       LET collection_res ==
             insert_manager_get_entity("NFTCollection",
                                       collection_address(call.data), answers)
       IN detect_impl_collection_P(
            [entity_cache_ EXCEPT
               !["NFTCollection"] =
                  IF collection_res.error # Status_OK THEN @
                  ELSE emplace(@, collection_address(call.data),
                               collection_res.value)],
            collection_res)
  /\ UNCHANGED <<interface_cache_, calls_made, verdicts_set>>
  /\ UNCHANGED <<sched_vars, ext_vars>>

\* the code hashes a verdict is stored for
VerdictCodes == {"c1"}

\* InterfaceManager::set_interface
set_interface(code_hash, interface, has) ==
  /\ verdicts_set < MaxSetInterface
  /\ interface_cache_' = [interface_cache_ EXCEPT ![<<code_hash, interface>>] = has]
  /\ verdicts_set' = verdicts_set + 1
  /\ UNCHANGED <<entity_cache_, db, call, result, calls_made>>
  /\ UNCHANGED <<sched_vars, ext_vars>>

\* the worker is started again: the caches are empty, the database is kept
restart ==
  /\ call.pc = "idle"
  /\ event_call.pc = "idle"
  /\ entity_cache_ # NoEntities
  /\ interface_cache_' = [k \in CodeHashes \X Tags |-> "NOT_FOUND"]
  /\ entity_cache_' = NoEntities
  /\ result' = NoResult
  /\ UNCHANGED <<db, call, calls_made, verdicts_set>>
  /\ UNCHANGED <<sched_vars, ext_vars>>

DetectNext ==
  \/ \E kind \in Kinds, code \in CodeHashes, data \in DataHashes, lt \in Lts :
       detect(kind, account(kind), code, data, lt)
  \/ detect_P
  \/ detect_continue
  \/ get_entity
  \/ detect_impl
  \/ get_wallet_address
  \/ master_get_entity
  \/ get_from_cache
  \/ collection_get_entity
  \/ \E code_hash \in VerdictCodes, interface \in Tags, has \in {"true", "false"} :
       set_interface(code_hash, interface, has)
  \/ restart

\* --------------------------------------------------------------------------
\* The event parsers: JettonWalletDetector::parse_transfer and parse_burn,
\* NFTItemDetector::parse_transfer
\* --------------------------------------------------------------------------

Handlers == {"jetton_transfer", "jetton_burn", "nft_transfer"}

\* the detector a handler belongs to, which is the cache its account is
\* looked up in
HandlerKind(handler) == IF handler = "nft_transfer" THEN "NFTItem" ELSE "JettonWallet"

\* what the parser reads of a message: whether the body matches the TL-B
\* record, its integers (a value or null), its addresses (convertible or
\* malformed), whether its optional references can be fetched, and whether the
\* transaction names the sender of its in-message
Integers == {"int", "null"}

Addresses == {"addr", "malformed"}

\* the bodies tried have at most this many defects
MaxDefects == 2

WellFormedBody ==
  [unpack |-> TRUE, amount |-> "int", destination |-> "addr",
   response_destination |-> "addr", custom_payload |-> TRUE,
   forward_amount |-> "int", forward_payload |-> TRUE, in_msg_from |-> TRUE]

Defects(body) == Cardinality({f \in DOMAIN body : body[f] # WellFormedBody[f]})

Bodies ==
  {body \in [unpack : BOOLEAN, amount : Integers, destination : Addresses,
             response_destination : Addresses, custom_payload : BOOLEAN,
             forward_amount : Integers, forward_payload : BOOLEAN,
             in_msg_from : BOOLEAN] : Defects(body) <= MaxDefects}

NoBody ==
  [unpack |-> FALSE, amount |-> "null", destination |-> "malformed",
   response_destination |-> "malformed", custom_payload |-> FALSE,
   forward_amount |-> "null", forward_payload |-> FALSE, in_msg_from |-> FALSE]

EventIdle == [pc |-> "idle", handler |-> "-", body |-> NoBody]

NoEvent == [amount |-> "-", forward_amount |-> "-"]

NoEventResult ==
  [handler |-> "-", body |-> NoBody, status |-> "none", error |-> Status_OK,
   event |-> NoEvent, unpacked |-> FALSE, known |-> FALSE, aborted |-> FALSE]

EventInit ==
  /\ event_call = EventIdle
  /\ event_result = NoEventResult

\* what an event-parser action leaves alone
event_frame ==
  <<sched_vars, interface_cache_, call, result, calls_made, verdicts_set, block_vars,
    tail_vars, kv_vars, scan_vars, convert_vars>>

\* the entity a detection of the account of a transaction stores
DetectedEntity(kind) ==
  [address |-> account(kind), code_hash |-> "c1", data_hash |-> "d1",
   last_transaction_lt |-> 1, code_boc |-> "-", data_boc |-> "-"]

\* a detection of the account succeeded: the detector stores the entity
entity_detected(kind) ==
  /\ event_call.pc = "idle"
  /\ db[kind][account(kind)] = NoEntity
  /\ add_to_cache(entity_cache_, kind, account(kind), DetectedEntity(kind))
  /\ UNCHANGED event_vars
  /\ UNCHANGED event_frame

\* the promise of a parse call is completed; cache is the entity cache the
\* call leaves
EventCompleted(status, error, event, unpacked, aborted, cache) ==
  /\ event_result' =
       [handler |-> event_call.handler, body |-> event_call.body,
        status |-> status, error |-> error, event |-> event,
        unpacked |-> unpacked,
        known |-> cache[HandlerKind(event_call.handler)]
                       [account(HandlerKind(event_call.handler))] # NoEntity,
        aborted |-> aborted]
  /\ event_call' = EventIdle

\* parse_transfer, parse_burn: check_cache of the transaction's account
parse(handler, body) ==
  /\ event_call.pc = "idle"
  /\ call.pc = "idle"
  /\ event_call' =
       [pc |-> IF entity_cache_[HandlerKind(handler)][account(HandlerKind(handler))]
                    # NoEntity
               THEN "parse_impl" ELSE "get_entity",
        handler |-> handler, body |-> body]
  /\ event_result' = NoEventResult
  /\ UNCHANGED <<entity_cache_, db>>
  /\ UNCHANGED event_frame

\* mutant: the body is unpacked whatever the lookup answered
parse_P_UnpacksAnyway(R) == Result_ok("parse_impl")

\* the lambda of parse_transfer and parse_burn: what the lookup's result R
\* leads to, the error the promise gets or the call of the _impl handler
parse_P(R) ==
  IF R.error # Status_OK
  THEN IF R.error.code = "NOT_FOUND_ERROR"
       THEN Result_error(Status_Error("EVENT_PARSE_ERROR", "Jetton Wallet not found"))
       ELSE Result_error(R.error)
  ELSE Result_ok("parse_impl")

\* check_cache: the reply of get_entity, then the lambda
parse_get_entity ==
  /\ event_call.pc = "get_entity"
  /\ \E answers \in BOOLEAN :
       LET kind == HandlerKind(event_call.handler)
           R == insert_manager_get_entity(kind, account(kind), answers)
           next == parse_P(R)
           cache == IF R.error = Status_OK
                    THEN [entity_cache_ EXCEPT
                            ![kind] = emplace(@, account(kind), R.value)]
                    ELSE entity_cache_
       IN /\ entity_cache_' = cache
          /\ IF next.error = Status_OK
             THEN /\ event_call' = [event_call EXCEPT !.pc = "parse_impl"]
                  /\ UNCHANGED event_result
             ELSE EventCompleted("error", next.error, NoEvent, FALSE, FALSE, cache)
  /\ UNCHANGED db
  /\ UNCHANGED event_frame

\* the error of convert::to_raw_address for an address it cannot convert
to_raw_address_error == Status_Error("EVENT_PARSE_ERROR", "Failed to convert address")

ParseError(message) == Status_Error("EVENT_PARSE_ERROR", message)

\* one decoding step of an _impl handler: whether it succeeds, the error the
\* promise gets when it does not, and what the handler does after the error:
\* "return", or go on and take the value out of the failed td::Result
\* ("move_as_ok") or out of the empty optional ("value")
Step(ok, error, after) == [ok |-> ok, error |-> error, after |-> after]

\* JettonWalletDetector::parse_transfer_impl
parse_transfer_impl(body) ==
  << Step(body.unpack, ParseError("Failed to unpack transfer"), "return"),
     Step(body.amount # "null", ParseError("Failed to unpack transfer amount"), "return"),
     Step(body.destination # "malformed", to_raw_address_error, "move_as_ok"),
     Step(body.response_destination # "malformed", to_raw_address_error, "move_as_ok"),
     Step(body.custom_payload, ParseError("Failed to fetch custom payload"), "return"),
     Step(body.forward_payload, ParseError("Failed to fetch forward payload"), "return") >>

\* JettonWalletDetector::parse_burn_impl
parse_burn_impl(body) ==
  << Step(body.unpack, ParseError("Failed to unpack burn"), "return"),
     Step(body.amount # "null", ParseError("Failed to unpack burn amount"), "return"),
     Step(body.response_destination # "malformed", to_raw_address_error, "return"),
     Step(body.custom_payload, ParseError("Failed to fetch custom payload"), "return") >>

\* NFTItemDetector::parse_transfer_impl
nft_parse_transfer_impl(body) ==
  << Step(body.unpack, ParseError("Failed to unpack transfer"), "return"),
     Step(body.in_msg_from, ParseError("Failed to fetch NFT old owner address"), "value"),
     Step(body.destination # "malformed", to_raw_address_error, "move_as_ok"),
     Step(body.response_destination # "malformed", to_raw_address_error, "move_as_ok"),
     Step(body.custom_payload, ParseError("Failed to fetch custom payload"), "return"),
     Step(body.forward_payload, ParseError("Failed to fetch forward payload"), "return") >>

impl(handler, body) ==
  CASE handler = "jetton_transfer" -> parse_transfer_impl(body)
    [] handler = "jetton_burn" -> parse_burn_impl(body)
    [] handler = "nft_transfer" -> nft_parse_transfer_impl(body)

\* the event the handler fills in: the integers as as_integer returns them
Event(handler, body) ==
  [amount |-> IF handler = "nft_transfer" THEN "-" ELSE body.amount,
   forward_amount |-> IF handler = "jetton_burn" THEN "-" ELSE body.forward_amount]

\* the completions of the promise, in order, that running the steps gives: an
\* error for every failed step until the handler returns or the process is
\* aborted, Status_OK for the final set_value.  Taking the value of an empty
\* optional throws; taking the value of a failed td::Result aborts when the
\* build checks it (checked) and yields an unspecified value otherwise.
RECURSIVE run(_, _)
run(steps, checked) ==
  IF steps = <<>> THEN [completions |-> <<Status_OK>>, aborted |-> FALSE]
  ELSE LET s == Head(steps)
       IN IF s.ok THEN run(Tail(steps), checked)
          ELSE IF s.after = "return"
               THEN [completions |-> <<s.error>>, aborted |-> FALSE]
          ELSE IF s.after = "value" \/ checked
               THEN [completions |-> <<s.error>>, aborted |-> TRUE]
          ELSE LET r == run(Tail(steps), checked)
               IN [completions |-> <<s.error>> \o r.completions,
                   aborted |-> r.aborted]

\* parse_transfer_impl, parse_burn_impl: the first completion of the promise
\* is the one the caller gets
parse_impl ==
  /\ event_call.pc = "parse_impl"
  /\ \E checked \in BOOLEAN :
       LET r == run(impl(event_call.handler, event_call.body), checked)
           first == Head(r.completions)
       IN IF first = Status_OK
          THEN EventCompleted("ok", Status_OK,
                              Event(event_call.handler, event_call.body),
                              TRUE, r.aborted, entity_cache_)
          ELSE EventCompleted("error", first, NoEvent, TRUE, r.aborted,
                              entity_cache_)
  /\ UNCHANGED <<entity_cache_, db>>
  /\ UNCHANGED event_frame

EventNext ==
  \/ \E kind \in {"JettonWallet", "NFTItem"} : entity_detected(kind)
  \/ \E handler \in Handlers, body \in Bodies : parse(handler, body)
  \/ parse_get_entity
  \/ parse_impl
  \/ restart

\* --------------------------------------------------------------------------
\* McBlockEmulator: trace ids of the transactions of a masterchain block and
\* the emulations started for them
\* --------------------------------------------------------------------------

\* the masterchain blocks emulated
MaxBlocks == 3

None == "none"

\* the transactions that can happen and their messages: t1 consumes the
\* external message m1 and sends m2 and m3, t2 consumes m2 and sends m4, ...;
\* t5 starts a second chain; x1 is an external-out message; the consumer of
\* p1 is in none of the blocks
Txs == {"t1", "t2", "t3", "t4", "t5", "t6"}

Msgs == {"m1", "m2", "m3", "m4", "m5", "m6", "p1", "x1"}

\* TransactionInfo as BlockParser fills it in
TransactionInfo(address, lt, in_msg_hash, is_first, out_msgs) ==
  [account |-> address, lt |-> lt, in_msg_hash |-> in_msg_hash,
   is_first |-> is_first, out_msgs |-> out_msgs, initial_msg_hash |-> None]

Tx ==
  [t \in Txs |->
     CASE t = "t1" -> TransactionInfo("A", 1, "m1", TRUE, <<"m2", "m3">>)
       [] t = "t2" -> TransactionInfo("B", 2, "m2", FALSE, <<"m4">>)
       [] t = "t3" -> TransactionInfo("C", 3, "m3", FALSE, <<"x1">>)
       [] t = "t4" -> TransactionInfo("C", 4, "m4", FALSE, <<>>)
       [] t = "t5" -> TransactionInfo("B", 2, "m5", TRUE, <<"m6">>)
       [] t = "t6" -> TransactionInfo("C", 5, "m6", FALSE, <<"p1">>)]

Range(seq) == {seq[i] : i \in DOMAIN seq}

\* the transaction that sent the in-message of t, as a set (empty for an
\* external message)
Emitter(t) == {p \in Txs : Tx[t].in_msg_hash \in Range(Tx[p].out_msgs)}

\* the shard block a transaction is in: the one of its account
ShardOf(t) == IF Tx[t].account = "C" THEN "shard2" ELSE "shard1"

EmulationStages == {"none", "emulating", "detecting", "inserting", "finished", "error"}

InProgress == {"emulating", "detecting", "inserting"}

NoBlock == [pc |-> "idle", seqno |-> 0, txs_ |-> {}, blocks_left_to_parse_ |-> {}]

BlockInit ==
  /\ block_of = [t \in Txs |-> 0]
  /\ interblock_trace_ids_ = [m \in Msgs |-> None]
  /\ mc = NoBlock
  /\ initial_msg_hash = [t \in Txs |-> None]
  /\ trace_ids_in_progress_ = {}
  /\ emulation = [t \in Txs |-> "none"]
  /\ traces_cnt_ = 0

\* what an action of McBlockEmulator leaves alone
block_frame == <<sched_vars, detect_vars, event_vars, tail_vars, kv_vars, scan_vars,
                convert_vars>>

\* the sets of transactions the next masterchain block can hold: not empty,
\* not in a block yet, and none before the transaction that sent its
\* in-message
NextBlocks ==
  {S \in SUBSET {t \in Txs : block_of[t] = 0} :
     /\ S # {}
     /\ \A t \in S : \A p \in Emitter(t) : p \in S \/ block_of[p] # 0}

\* the emulator of the latest block is over: never started, failed, finished,
\* or left with no trace in progress
BlockOver ==
  \/ mc.pc \in {"idle", "failed", "finished"}
  \/ mc.pc = "emulating" /\ trace_ids_in_progress_ = {}

\* McBlockEmulator::start_up for the next masterchain block, which holds the
\* transactions S: one BlockParser per shard block
mc_start_up(S) ==
  /\ BlockOver
  /\ mc.seqno < MaxBlocks
  /\ mc' = [pc |-> "parsing", seqno |-> mc.seqno + 1, txs_ |-> {},
            blocks_left_to_parse_ |-> {ShardOf(t) : t \in S}]
  /\ block_of' = [t \in Txs |-> IF t \in S THEN mc.seqno + 1 ELSE block_of[t]]
  /\ trace_ids_in_progress_' = {}
  /\ emulation' = [t \in Txs |-> "none"]
  /\ traces_cnt_' = 0
  /\ UNCHANGED <<interblock_trace_ids_, initial_msg_hash>>
  /\ UNCHANGED block_frame

\* McBlockEmulator::parse_error
parse_error(shard) ==
  /\ mc.pc = "parsing"
  /\ shard \in mc.blocks_left_to_parse_
  /\ mc' = [mc EXCEPT !.pc = "failed"]
  /\ UNCHANGED <<block_of, interblock_trace_ids_, initial_msg_hash,
                 trace_ids_in_progress_, emulation, traces_cnt_>>
  /\ UNCHANGED block_frame

\* std::sort of txs_ by lt: every order of the transactions S in which no
\* transaction comes before one of smaller lt
RECURSIVE SortedByLt(_)
SortedByLt(S) ==
  IF S = {} THEN {<<>>}
  ELSE UNION {{<<t>> \o rest : rest \in SortedByLt(S \ {t})} :
                t \in {u \in S : \A v \in S : Tx[u].lt <= Tx[v].lt}}

\* txs_by_out_msg_hash: for every out-message hash a copy of the transaction
\* that sent it, taken before any initial_msg_hash is assigned
txs_by_out_msg_hash(txs) ==
  [m \in {n \in Msgs : \E t \in txs : n \in Range(Tx[t].out_msgs)} |->
     Tx[CHOOSE t \in txs : m \in Range(Tx[t].out_msgs)]]

\* mutant: the map carried over from earlier blocks is not consulted
assign_NoInterblock(info, by_out_msg, ids) ==
  IF info.is_first THEN info.in_msg_hash
  ELSE IF /\ info.in_msg_hash \in DOMAIN by_out_msg
          /\ by_out_msg[info.in_msg_hash].initial_msg_hash # None
       THEN by_out_msg[info.in_msg_hash].initial_msg_hash
  ELSE None

\* process_txs: the initial_msg_hash of one transaction, given the copies
\* by out-message hash and interblock_trace_ids_ as they are when the loop
\* reaches the transaction
assign(info, by_out_msg, ids) ==
  IF info.is_first THEN info.in_msg_hash
  ELSE IF /\ info.in_msg_hash \in DOMAIN by_out_msg
          /\ by_out_msg[info.in_msg_hash].initial_msg_hash # None
       THEN by_out_msg[info.in_msg_hash].initial_msg_hash
  ELSE IF ids[info.in_msg_hash] # None THEN ids[info.in_msg_hash]
  ELSE None

\* mutant: the out-messages are not recorded
record_out_msgs_Nothing(info, h, ids) == ids

\* process_txs: interblock_trace_ids_ after the out-messages of a transaction
\* that was assigned h are written
record_out_msgs(info, h, ids) ==
  IF h # None
  THEN [m \in Msgs |-> IF m \in Range(info.out_msgs) THEN h ELSE ids[m]]
  ELSE ids

\* process_txs: the loop over the sorted txs_, from position i on, with the
\* hashes assigned so far and interblock_trace_ids_ as written so far
RECURSIVE process_txs(_, _, _, _, _)
process_txs(order, i, by_out_msg, hashes, ids) ==
  IF i > Len(order) THEN [initial_msg_hash |-> hashes, interblock_trace_ids_ |-> ids]
  ELSE LET t == order[i]
           h == assign(Tx[t], by_out_msg, ids)
       IN process_txs(order, i + 1, by_out_msg,
                      [hashes EXCEPT ![t] = h],
                      record_out_msgs(Tx[t], h, ids))

\* mutant: an emulation is started for every transaction with a trace id
already_emulating_Never(trace_id, in_progress) == FALSE

\* emulate_traces: the trace id is in trace_ids_in_progress_
already_emulating(trace_id, in_progress) == trace_id \in in_progress

\* emulate_traces: the loop over txs_, from position i on: the transactions
\* a TraceTailEmulator is created for and trace_ids_in_progress_
RECURSIVE emulate_traces(_, _, _, _, _)
emulate_traces(order, i, hashes, in_progress, created) ==
  IF i > Len(order) THEN [created |-> created, trace_ids_in_progress_ |-> in_progress]
  ELSE LET t == order[i]
       IN IF hashes[t] = None \/ already_emulating(hashes[t], in_progress)
          THEN emulate_traces(order, i + 1, hashes, in_progress, created)
          ELSE emulate_traces(order, i + 1, hashes,
                              in_progress \cup {hashes[t]}, created \cup {t})

\* mutant: process_txs runs after every parsed block
all_parsed_Always(left) == TRUE

\* block_parsed: blocks_left_to_parse_ == 0
all_parsed(left) == left = {}

\* McBlockEmulator::block_parsed: the transactions of one shard block arrive;
\* after the last one process_txs and emulate_traces run
block_parsed(shard) ==
  /\ mc.pc = "parsing"
  /\ shard \in mc.blocks_left_to_parse_
  /\ LET txs == mc.txs_ \cup {t \in Txs : block_of[t] = mc.seqno /\ ShardOf(t) = shard}
         left == mc.blocks_left_to_parse_ \ {shard}
     IN IF ~all_parsed(left)
        THEN /\ mc' = [mc EXCEPT !.txs_ = txs, !.blocks_left_to_parse_ = left]
             /\ UNCHANGED <<interblock_trace_ids_, initial_msg_hash,
                            trace_ids_in_progress_, emulation>>
        ELSE \E order \in SortedByLt(txs) :
               LET processed == process_txs(order, 1, txs_by_out_msg_hash(txs),
                                            initial_msg_hash, interblock_trace_ids_)
                   emulated == emulate_traces(order, 1, processed.initial_msg_hash,
                                              trace_ids_in_progress_, {})
               IN /\ mc' = [mc EXCEPT !.pc = "emulating", !.txs_ = txs,
                                      !.blocks_left_to_parse_ = left]
                  /\ initial_msg_hash' = processed.initial_msg_hash
                  /\ interblock_trace_ids_' = processed.interblock_trace_ids_
                  /\ trace_ids_in_progress_' = emulated.trace_ids_in_progress_
                  /\ emulation' = [t \in Txs |-> IF t \in emulated.created
                                                 THEN "emulating" ELSE emulation[t]]
  /\ UNCHANGED <<block_of, traces_cnt_>>
  /\ UNCHANGED block_frame

\* McBlockEmulator::trace_error: the TraceTailEmulator started from t failed
trace_error(t) ==
  /\ mc.pc = "emulating"
  /\ emulation[t] = "emulating"
  /\ emulation' = [emulation EXCEPT ![t] = "error"]
  /\ trace_ids_in_progress_' = trace_ids_in_progress_ \ {initial_msg_hash[t]}
  /\ UNCHANGED <<block_of, interblock_trace_ids_, mc, initial_msg_hash, traces_cnt_>>
  /\ UNCHANGED block_frame

\* McBlockEmulator::trace_received: the trace goes to a TraceInterfaceDetector
trace_received(t) ==
  /\ mc.pc = "emulating"
  /\ emulation[t] = "emulating"
  /\ emulation' = [emulation EXCEPT ![t] = "detecting"]
  /\ UNCHANGED <<block_of, interblock_trace_ids_, mc, initial_msg_hash,
                 trace_ids_in_progress_, traces_cnt_>>
  /\ UNCHANGED block_frame

\* McBlockEmulator::trace_interfaces_error
trace_interfaces_error(t) ==
  /\ mc.pc = "emulating"
  /\ emulation[t] = "detecting"
  /\ emulation' = [emulation EXCEPT ![t] = "error"]
  /\ trace_ids_in_progress_' = trace_ids_in_progress_ \ {initial_msg_hash[t]}
  /\ UNCHANGED <<block_of, interblock_trace_ids_, mc, initial_msg_hash, traces_cnt_>>
  /\ UNCHANGED block_frame

\* McBlockEmulator::trace_emulated: the trace is handed to trace_processor_
trace_emulated(t) ==
  /\ mc.pc = "emulating"
  /\ emulation[t] = "detecting"
  /\ emulation' = [emulation EXCEPT ![t] = "inserting"]
  /\ UNCHANGED <<block_of, interblock_trace_ids_, mc, initial_msg_hash,
                 trace_ids_in_progress_, traces_cnt_>>
  /\ UNCHANGED block_frame

\* McBlockEmulator::trace_finished: trace_processor_ completed its promise
trace_finished(t) ==
  /\ mc.pc = "emulating"
  /\ emulation[t] = "inserting"
  /\ emulation' = [emulation EXCEPT ![t] = "finished"]
  /\ trace_ids_in_progress_' = trace_ids_in_progress_ \ {initial_msg_hash[t]}
  /\ traces_cnt_' = traces_cnt_ + 1
  /\ mc' = IF trace_ids_in_progress_' = {} THEN [mc EXCEPT !.pc = "finished"] ELSE mc
  /\ UNCHANGED <<block_of, interblock_trace_ids_, initial_msg_hash>>
  /\ UNCHANGED block_frame

BlockNext ==
  \/ \E S \in NextBlocks : mc_start_up(S)
  \/ \E shard \in {"shard1", "shard2"} : parse_error(shard)
  \/ \E shard \in {"shard1", "shard2"} : block_parsed(shard)
  \/ \E t \in Txs : trace_error(t)
  \/ \E t \in Txs : trace_received(t)
  \/ \E t \in Txs : trace_interfaces_error(t)
  \/ \E t \in Txs : trace_emulated(t)
  \/ \E t \in Txs : trace_finished(t)

\* the handlers of McBlockEmulator: the results BlockParser, TraceTailEmulator,
\* TraceInterfaceDetector and trace_processor_ send back
BlockStep ==
  \/ \E shard \in {"shard1", "shard2"} : parse_error(shard) \/ block_parsed(shard)
  \/ \E t \in Txs : trace_error(t) \/ trace_received(t) \/ trace_interfaces_error(t)
  \/ \E t \in Txs : trace_emulated(t) \/ trace_finished(t)

\* a result that was sent to the actor is delivered: the actor scheduler runs
\* every mailbox that is not empty
BlockFairness == WF_vars(BlockStep)

\* --------------------------------------------------------------------------
\* TraceTailEmulator: the trace of one trace id, observed transactions first,
\* then emulated ones by one TraceEmulatorImpl worker per address
\* --------------------------------------------------------------------------

Accounts == {"A", "B", "C"}

\* the depth TraceTailEmulator passes to TraceEmulatorImpl::emulate
depth_cap == 20

\* the messages of a chain that never ends by itself: the contract at B
\* answers p1 with p2 to C, which answers with p3 to B, and so on
PingPong ==
  << "p1", "p2", "p3", "p4", "p5", "p6", "p7", "p8", "p9", "p10", "p11",
     "p12", "p13", "p14", "p15", "p16", "p17", "p18", "p19", "p20", "p21",
     "p22", "p23" >>

PingIndex(m) == CHOOSE i \in DOMAIN PingPong : PingPong[i] = m

\* the transaction the emulator computes for an internal message: its account
\* and the messages it sends
EmulatedTx(m) ==
  IF m \in Range(PingPong)
  THEN [account |-> IF PingIndex(m) % 2 = 1 THEN "B" ELSE "C",
        out_msgs |-> IF PingIndex(m) < Len(PingPong)
                     THEN <<PingPong[PingIndex(m) + 1]>> ELSE <<>>]
  ELSE LET t == CHOOSE u \in Txs : Tx[u].in_msg_hash = m
       IN [account |-> Tx[t].account, out_msgs |-> Tx[t].out_msgs]

\* the message is external-out: it has no destination account
ext_out_msg_info(m) == m = "x1"

\* fetch_msg_dest_address of an internal message
fetch_msg_dest_address(m) == EmulatedTx(m).account

\* the internal messages among out_msgs, in order
RECURSIVE InternalMsgs(_)
InternalMsgs(out_msgs) ==
  IF out_msgs = <<>> THEN <<>>
  ELSE IF ext_out_msg_info(Head(out_msgs)) THEN InternalMsgs(Tail(out_msgs))
  ELSE <<Head(out_msgs)>> \o InternalMsgs(Tail(out_msgs))

NoHandler == [tx |-> "-", i |-> 0, phase |-> "-"]

NoTail == [pc |-> "idle", tx_ |-> "-", tx_by_in_msg_hash_ |-> {},
           handler |-> NoHandler, failed |-> FALSE]

NoAccess == [actor |-> "-", map |-> "-", holder |-> "-"]

\* the children of a node no emulate_tx has run for: state is where its
\* emulate_tx is (none, running, ended, completed once its promise is), slots
\* is the vector, pending the children whose promise is outstanding, failed
\* the error a child's promise brought
NoChildren == [state |-> "none", slots |-> <<>>, pending |-> {}, failed |-> FALSE]

NoWrite == [parent |-> "-", child_ind |-> 0, size |-> 0, actor |-> "-"]

TailInit ==
  /\ tail = NoTail
  /\ nodes = {}
  /\ mailbox = <<>>
  /\ emulator_actors_ = {}
  /\ actors_created = [a \in Accounts |-> 0]
  /\ queue = [a \in Accounts |-> <<>>]
  /\ worker = [a \in Accounts |-> "idle"]
  /\ emulated_accounts_ = [a \in Accounts |-> 0]
  /\ emulated_accounts_mutex_ = "free"
  /\ last_access = NoAccess
  /\ asked = [a \in Accounts |-> <<>>]
  /\ served = [a \in Accounts |-> <<>>]
  /\ children = [m \in Msgs |-> NoChildren]
  /\ child_write = NoWrite

\* what an action of the trace emulator leaves alone
tail_frame == <<sched_vars, detect_vars, event_vars, block_vars, kv_vars, scan_vars,
               convert_vars>>

\* one of the shared maps is read or written by actor while holder has the
\* mutex
Access(actor, map, holder) == [actor |-> actor, map |-> map, holder |-> holder]

\* a TraceNode: node_id is the hash of the in-message; parent is the node_id
\* of the node whose children holds it; tx is the observed transaction of a
\* node that was not emulated; seen is the state of the account the emulation
\* started from
TraceNode(node_id, parent, is_emulated, tx, seen) ==
  [node_id |-> node_id, parent |-> parent, emulated |-> is_emulated, tx |-> tx,
   seen |-> seen]

\* the transactions an emulator can be started from, for the transactions S
\* of a block: those no other transaction of S leads to
Starts(S) == {t \in S : Emitter(t) \cap S = {}}

\* TraceTailEmulator::TraceTailEmulator and start_up: emulate_tx(tx_); the
\* actor lives for one trace
tail_start_up(S, t) ==
  /\ tail.pc = "idle"
  /\ tail' = [pc |-> "running", tx_ |-> t, tx_by_in_msg_hash_ |-> S,
              handler |-> NoHandler, failed |-> FALSE]
  /\ nodes' = {}
  /\ mailbox' = << [tx |-> t, parent |-> "-"] >>
  /\ emulator_actors_' = {}
  /\ actors_created' = [a \in Accounts |-> 0]
  /\ queue' = [a \in Accounts |-> <<>>]
  /\ worker' = [a \in Accounts |-> "idle"]
  /\ emulated_accounts_' = [a \in Accounts |-> 0]
  /\ emulated_accounts_mutex_' = "free"
  /\ last_access' = NoAccess
  /\ asked' = [a \in Accounts |-> <<>>]
  /\ served' = [a \in Accounts |-> <<>>]
  /\ children' = [m \in Msgs |-> NoChildren]
  /\ child_write' = NoWrite
  /\ UNCHANGED tail_frame

\* emulate_tx: the handler starts for the next call in the mailbox and makes
\* the node of the transaction
emulate_tx ==
  /\ tail.pc \in {"running", "error"}
  /\ tail.handler = NoHandler
  /\ mailbox # <<>>
  /\ mailbox' = Tail(mailbox)
  /\ nodes' = nodes \cup {TraceNode(Tx[Head(mailbox).tx].in_msg_hash,
                                    Head(mailbox).parent, FALSE, Head(mailbox).tx, 0)}
  /\ tail' = [tail EXCEPT !.handler = [tx |-> Head(mailbox).tx, i |-> 1,
                                       phase |-> "loop"]]
  /\ UNCHANGED <<emulator_actors_, actors_created, queue, worker, emulated_accounts_,
                 emulated_accounts_mutex_, last_access, asked, served>>
  /\ children' = [children EXCEPT ![Tx[Head(mailbox).tx].in_msg_hash] =
                                    [NoChildren EXCEPT !.state = "running"]]
  /\ UNCHANGED child_write
  /\ UNCHANGED tail_frame

\* the out-message the handler is at
out_msg == Tx[tail.handler.tx].out_msgs[tail.handler.i]

\* mutant: the child is looked up among all transactions
find_child_Anywhere(msg, by_in_msg_hash) == {t \in Txs : Tx[t].in_msg_hash = msg}

\* tx_by_in_msg_hash_.find(out_msg.hash): the observed transaction that
\* consumes the message, as a set
find_child(msg, by_in_msg_hash) == {t \in by_in_msg_hash : Tx[t].in_msg_hash = msg}

\* the transactions emulate_tx makes nodes of when it starts from t: t and
\* what the calls it sends to itself for the observed children lead to
RECURSIVE observed_subtree(_, _)
observed_subtree(t, by_in_msg_hash) ==
  {t} \cup UNION {observed_subtree(c, by_in_msg_hash) :
                   c \in UNION {find_child(Tx[t].out_msgs[i], by_in_msg_hash) :
                                  i \in {j \in DOMAIN Tx[t].out_msgs :
                                           ~ext_out_msg_info(Tx[t].out_msgs[j])}}}

\* emulate_tx, one turn of the loop for a message that is external-out or
\* consumed by an observed transaction: skip it, or send emulate_tx of the
\* child to this actor
emulate_tx_observed ==
  /\ tail.handler.phase = "loop"
  /\ tail.handler.i <= Len(Tx[tail.handler.tx].out_msgs)
  /\ \/ /\ ext_out_msg_info(out_msg)
        /\ UNCHANGED <<mailbox, children>>
     \/ /\ ~ext_out_msg_info(out_msg)
        /\ find_child(out_msg, tail.tx_by_in_msg_hash_) # {}
        /\ mailbox' = Append(mailbox,
                             [tx |-> CHOOSE t \in find_child(out_msg,
                                                             tail.tx_by_in_msg_hash_) : TRUE,
                              parent |-> Tx[tail.handler.tx].in_msg_hash])
        /\ children' = [children EXCEPT ![Tx[tail.handler.tx].in_msg_hash].pending =
                                          @ \cup {out_msg}]
  /\ tail' = [tail EXCEPT !.handler.i = @ + 1]
  /\ UNCHANGED <<nodes, emulator_actors_, actors_created, queue, worker, emulated_accounts_,
                 emulated_accounts_mutex_, last_access, asked, served>>
  /\ UNCHANGED child_write
  /\ UNCHANGED tail_frame

\* emulate_tx, line 117: the lock_guard is taken for a message no observed
\* transaction consumes
emulate_tx_lock ==
  /\ tail.handler.phase = "loop"
  /\ tail.handler.i <= Len(Tx[tail.handler.tx].out_msgs)
  /\ ~ext_out_msg_info(out_msg)
  /\ find_child(out_msg, tail.tx_by_in_msg_hash_) = {}
  /\ emulated_accounts_mutex_ = "free"
  /\ emulated_accounts_mutex_' = "tail"
  /\ tail' = [tail EXCEPT !.handler.phase = "locked"]
  /\ UNCHANGED <<nodes, mailbox, emulator_actors_, actors_created, queue, worker,
                 emulated_accounts_, last_access, asked, served>>
  /\ UNCHANGED <<children, child_write>>
  /\ UNCHANGED tail_frame

\* mutant: a worker is created for every request
no_actor_Always(destination, actors) == TRUE

\* emulator_actors_.find(destination) == emulator_actors_.end()
no_actor(destination, actors) == destination \notin actors

\* emulate_tx, lines 118-121: create the worker of the destination if there
\* is none, then leave the scope of the lock_guard
emulate_tx_create ==
  /\ tail.handler.phase = "locked"
  /\ LET destination == fetch_msg_dest_address(out_msg)
     IN IF no_actor(destination, emulator_actors_)
        THEN /\ emulator_actors_' = emulator_actors_ \cup {destination}
             /\ actors_created' = [actors_created EXCEPT ![destination] = @ + 1]
        ELSE UNCHANGED <<emulator_actors_, actors_created>>
  /\ last_access' = Access("tail", "emulator_actors_", emulated_accounts_mutex_)
  /\ emulated_accounts_mutex_' = "free"
  /\ tail' = [tail EXCEPT !.handler.phase = "send"]
  /\ UNCHANGED <<nodes, mailbox, queue, worker, emulated_accounts_, asked, served>>
  /\ UNCHANGED <<children, child_write>>
  /\ UNCHANGED tail_frame

\* mutant: the request carries a larger depth
emulate_request_Deeper(msg, parent) ==
  [msg |-> msg, depth |-> depth_cap + 3, parent |-> parent]

\* the arguments of TraceEmulatorImpl::emulate as emulate_tx sends them
emulate_request(msg, parent) == [msg |-> msg, depth |-> depth_cap, parent |-> parent]

\* emulate_tx, line 122: emulator_actors_[destination] is read and the
\* request is sent to that worker
emulate_tx_send ==
  /\ tail.handler.phase = "send"
  /\ LET destination == fetch_msg_dest_address(out_msg)
     IN /\ queue' = [queue EXCEPT ![destination] =
                       Append(@, emulate_request(out_msg, Tx[tail.handler.tx].in_msg_hash))]
        /\ asked' = [asked EXCEPT ![destination] = Append(@, out_msg)]
  /\ last_access' = Access("tail", "emulator_actors_", emulated_accounts_mutex_)
  /\ tail' = [tail EXCEPT !.handler.phase = "loop", !.handler.i = @ + 1]
  /\ UNCHANGED <<nodes, mailbox, emulator_actors_, actors_created, worker, emulated_accounts_,
                 emulated_accounts_mutex_, served>>
  /\ children' = [children EXCEPT ![Tx[tail.handler.tx].in_msg_hash].pending =
                                    @ \cup {out_msg}]
  /\ UNCHANGED child_write
  /\ UNCHANGED tail_frame

\* child_ind counted over every out-message
child_count_AllMsgs(out_msgs) == Len(out_msgs)

\* child_ind after the loop: the out-messages that were not skipped
child_count(out_msgs) == Len(InternalMsgs(out_msgs))

\* child_ind of the lambda made for msg: its place among the out-messages of
\* the node that were not skipped (slot 0 of the vector is 1 here)
child_ind(node_id, msg) ==
  LET sent == InternalMsgs(Tx[(CHOOSE n \in nodes : n.node_id = node_id).tx].out_msgs)
  IN CHOOSE i \in DOMAIN sent : sent[i] = msg

\* children.resize(n)
resize(slots, n) == [i \in 1..n |-> IF i <= Len(slots) THEN slots[i] ELSE None]

\* the lambda made for the child msg of the node (lines 95-102, 106-114) runs
\* with the result of the child: the slot is written unless the result is an
\* error; when it was the last promise the MultiPromise waited for and
\* emulate_tx of the node is over, the promise of the node is completed in
\* turn (66-73), which runs the lambda its own parent made for it
RECURSIVE child_result(_, _, _, _)
child_result(slots, node_id, msg, ok) ==
  LET node == slots[node_id]
      after == [slots EXCEPT
                  ![node_id].slots = IF ok THEN [@ EXCEPT ![child_ind(node_id, msg)] = msg]
                                     ELSE @,
                  ![node_id].pending = @ \ {msg},
                  ![node_id].failed = @ \/ ~ok]
      parent == (CHOOSE n \in nodes : n.node_id = node_id).parent
  IN IF after[node_id].state = "ended" /\ after[node_id].pending = {}
     THEN LET done == [after EXCEPT ![node_id].state = "completed"]
          IN IF parent = "-" THEN done
             ELSE child_result(done, parent, node_id, ~after[node_id].failed)
     ELSE after

\* a slot of the node is written: by whom, and the size of the vector then
Write(node_id, msg, actor) ==
  [parent |-> node_id, child_ind |-> child_ind(node_id, msg),
   size |-> Len(children[node_id].slots), actor |-> actor]

\* emulate_tx, lines 126-127: the loop is over, the vector is resized, the
\* init guard of the MultiPromise goes; a node with no promise outstanding is
\* completed here
emulate_tx_end ==
  /\ tail.handler.phase = "loop"
  /\ tail.handler.i > Len(Tx[tail.handler.tx].out_msgs)
  /\ tail' = [tail EXCEPT !.handler = NoHandler]
  /\ LET node_id == Tx[tail.handler.tx].in_msg_hash
         parent == (CHOOSE n \in nodes : n.node_id = node_id).parent
         resized == [children EXCEPT
                       ![node_id].slots = resize(@, child_count(Tx[tail.handler.tx].out_msgs)),
                       ![node_id].state = "ended"]
         over == resized[node_id].pending = {}
     IN /\ children' =
             IF ~over THEN resized
             ELSE IF parent = "-" THEN [resized EXCEPT ![node_id].state = "completed"]
             ELSE child_result([resized EXCEPT ![node_id].state = "completed"],
                               parent, node_id, ~resized[node_id].failed)
        /\ child_write' =
             IF over /\ parent # "-" /\ ~resized[node_id].failed
             THEN Write(parent, node_id, "tail")
             ELSE child_write
  /\ UNCHANGED <<nodes, mailbox, emulator_actors_, actors_created, queue, worker,
                 emulated_accounts_, emulated_accounts_mutex_, last_access, asked,
                 served>>
  /\ UNCHANGED tail_frame

\* the MultiPromise of every node is completed: no emulate_tx call and no
\* emulate request is outstanding
AllCompleted ==
  /\ mailbox = <<>>
  /\ \A a \in Accounts : queue[a] = <<>> /\ worker[a] = "idle"

\* the result is a value although an emulation failed
root_result_AlwaysValue(failed) == "value"

\* the result the promise of the root node is completed with (lines 66-73)
root_result(failed) == IF failed THEN "error" ELSE "value"

\* TraceTailEmulator::trace_root_received
trace_root_received ==
  /\ tail.pc = "running"
  /\ tail.handler = NoHandler
  /\ root_result(tail.failed) = "value"
  /\ AllCompleted
  /\ children[Tx[tail.tx_].in_msg_hash].state = "completed"
  /\ tail' = [tail EXCEPT !.pc = "done"]
  /\ last_access' = Access("tail", "emulated_accounts_", emulated_accounts_mutex_)
  /\ UNCHANGED <<nodes, mailbox, emulator_actors_, actors_created, queue, worker,
                 emulated_accounts_, emulated_accounts_mutex_, asked, served>>
  /\ UNCHANGED <<children, child_write>>
  /\ UNCHANGED tail_frame

\* TraceTailEmulator::trace_error
tail_trace_error ==
  /\ tail.pc = "running"
  /\ tail.handler = NoHandler
  /\ root_result(tail.failed) = "error"
  /\ tail' = [tail EXCEPT !.pc = "error"]
  /\ UNCHANGED <<nodes, mailbox, emulator_actors_, actors_created, queue, worker,
                 emulated_accounts_, emulated_accounts_mutex_, last_access, asked,
                 served>>
  /\ UNCHANGED <<children, child_write>>
  /\ UNCHANGED tail_frame

\* TraceEmulatorImpl::emulate of the worker at address a: the mutex is taken
worker_lock(a) ==
  /\ worker[a] = "idle"
  /\ queue[a] # <<>>
  /\ emulated_accounts_mutex_ = "free"
  /\ emulated_accounts_mutex_' = a
  /\ worker' = [worker EXCEPT ![a] = "locked"]
  /\ UNCHANGED <<tail, nodes, mailbox, emulator_actors_, actors_created, queue,
                 emulated_accounts_, last_access, asked, served>>
  /\ UNCHANGED <<children, child_write>>
  /\ UNCHANGED tail_frame

\* the requests for the internal out-messages out_msgs of an emulated
\* transaction, from position i on, added to the workers' queues
RECURSIVE emulate_children(_, _, _, _, _)
emulate_children(out_msgs, i, depth, parent, state) ==
  IF i > Len(out_msgs) THEN state
  ELSE LET m == out_msgs[i]
           destination == fetch_msg_dest_address(m)
           fresh == destination \notin state.emulator_actors_
       IN emulate_children(out_msgs, i + 1, depth, parent,
            [emulator_actors_ |-> state.emulator_actors_ \cup {destination},
             actors_created |-> IF fresh
                         THEN [state.actors_created EXCEPT ![destination] = @ + 1]
                         ELSE state.actors_created,
             queue |-> [state.queue EXCEPT ![destination] =
                          Append(@, [msg |-> m, depth |-> depth, parent |-> parent])],
             asked |-> [state.asked EXCEPT ![destination] = Append(@, m)]])

\* the lambda of lines 106-114 runs before line 126 resized the vector of its
\* node: children[child_ind] is outside the empty vector
out_of_bounds(node, ok) == ok /\ node.state = "running"

\* TraceEmulatorImpl::emulate of the worker at address a, holding the mutex:
\* the transaction is emulated on the account as the previous emulation left
\* it; its node is handed to the parent; while depth allows, the internal
\* out-messages go to the workers of their destinations. The promise of a
\* request of emulate_tx is the lambda of lines 106-114, which runs here, in
\* the worker: a write outside the vector goes through the null data pointer
\* of the empty vector and ends the process
worker_emulate(a, ok) ==
  /\ worker[a] = "locked"
  /\ LET request == Head(queue[a])
         state == [emulator_actors_ |-> emulator_actors_, actors_created |-> actors_created,
                   queue |-> [queue EXCEPT ![a] = Tail(@)], asked |-> asked]
         after == IF ok /\ request.depth > 1
                  THEN emulate_children(
                         InternalMsgs(EmulatedTx(request.msg).out_msgs), 1,
                         request.depth - 1, request.msg, state)
                  ELSE state
         observed == request.parent \in DOMAIN children /\ children[request.parent].state # "none"
         crash == observed /\ out_of_bounds(children[request.parent], ok)
     IN /\ nodes' = IF ok
                    THEN nodes \cup {TraceNode(request.msg, request.parent, TRUE, "-",
                                               emulated_accounts_[a])}
                    ELSE nodes
        /\ emulated_accounts_' = IF ok THEN [emulated_accounts_ EXCEPT ![a] = @ + 1]
                                 ELSE emulated_accounts_
        /\ tail' = IF crash THEN [tail EXCEPT !.pc = "crashed", !.handler = NoHandler]
                   ELSE IF ok THEN tail ELSE [tail EXCEPT !.failed = TRUE]
        /\ emulator_actors_' = after.emulator_actors_
        /\ actors_created' = after.actors_created
        /\ queue' = IF crash THEN [b \in Accounts |-> <<>>] ELSE after.queue
        /\ asked' = after.asked
        /\ served' = [served EXCEPT ![a] = Append(@, request.msg)]
        /\ mailbox' = IF crash THEN <<>> ELSE mailbox
        /\ worker' = IF crash THEN [b \in Accounts |-> "idle"]
                     ELSE [worker EXCEPT ![a] = "idle"]
        /\ children' = IF observed /\ ~crash
                       THEN child_result(children, request.parent, request.msg, ok)
                       ELSE children
        /\ child_write' = IF observed /\ ok THEN Write(request.parent, request.msg, a)
                          ELSE child_write
  /\ last_access' = Access(a, "emulated_accounts_", emulated_accounts_mutex_)
  /\ emulated_accounts_mutex_' = "free"
  /\ UNCHANGED tail_frame

TailNext ==
  \/ \E S \in SUBSET Txs : \E t \in Starts(S) : tail_start_up(S, t)
  \/ emulate_tx
  \/ emulate_tx_observed
  \/ emulate_tx_lock
  \/ emulate_tx_create
  \/ emulate_tx_send
  \/ emulate_tx_end
  \/ trace_root_received
  \/ tail_trace_error
  \/ \E a \in Accounts : worker_lock(a)
  \/ \E a \in Accounts, ok \in BOOLEAN : worker_emulate(a, ok)

\* a handler of the TraceTailEmulator or of a worker
TailStep ==
  \/ emulate_tx
  \/ emulate_tx_observed
  \/ emulate_tx_lock
  \/ emulate_tx_create
  \/ emulate_tx_send
  \/ emulate_tx_end
  \/ trace_root_received
  \/ tail_trace_error
  \/ \E a \in Accounts : worker_lock(a)
  \/ \E a \in Accounts, ok \in BOOLEAN : worker_emulate(a, ok)

\* the actor framework runs the handlers of delivered messages and a free
\* mutex is obtained: while a handler can run, one does
TailFairness == WF_vars(TailStep)

\* --------------------------------------------------------------------------
\* TaskResultInserter: a trace is written to the key-value store
\* --------------------------------------------------------------------------

\* the in-message hashes of the nodes of the traces of one trace id
KvKeys == {"m1", "m2", "m3", "m4", "m5"}

KvAccounts == {"A", "B", "C", "D", "E"}

\* the account that consumes a message
KvAccount(key) ==
  CASE key = "m1" -> "A"
    [] key = "m2" -> "B"
    [] key = "m3" -> "C"
    [] key = "m4" -> "D"
    [] key = "m5" -> "E"

\* what the transaction that consumes m2 sends: an emulation runs on the
\* account state of its time and does not always agree with the chain
Outcomes == {<<"m4">>, <<"m5">>, <<>>}

\* what the transaction that consumes m2 sends on the chain
ObservedOutcome == <<"m5">>

\* the out-messages of the transaction that consumes a message
KvOutMsgs(key, outcome) ==
  CASE key = "m1" -> <<"m2", "m3">>
    [] key = "m2" -> outcome
    [] OTHER -> <<>>

\* a node of a trace, and what msgpack stores of it
KvNode(key, outcome, is_emulated) ==
  [key |-> key, account |-> KvAccount(key), out_msgs |-> KvOutMsgs(key, outcome),
   emulated |-> is_emulated]

NoStored == [key |-> "-", account |-> "-", out_msgs |-> <<>>, emulated |-> FALSE]

\* the keys of the tree under root
KvReach(root, outcome) ==
  IF root = "m1" THEN {"m1", "m2", "m3"} \cup Range(outcome)
  ELSE {root} \cup Range(KvOutMsgs(root, outcome))

\* the traces handed to the inserter: the root is observed (the starting
\* transaction, or the one a later block's emulator starts from), the
\* children of an emulated node are emulated, and an observed transaction is
\* the one of the chain
Traces ==
  {[root |-> root,
    nodes |-> {KvNode(k, outcome, k \in E) : k \in KvReach(root, outcome)}] :
     <<root, outcome, E>> \in
       {x \in {"m1", "m2"} \X Outcomes \X SUBSET KvKeys :
          /\ x[3] \subseteq KvReach(x[1], x[2]) \ {x[1]}
          /\ \A k \in x[3] : Range(KvOutMsgs(k, x[2])) \subseteq x[3]
          /\ "m2" \notin x[3] => x[2] = ObservedOutcome}}

NoTrace == [root |-> "-", nodes |-> {}]

KvInit ==
  /\ kv_tx = [k \in KvKeys |-> NoStored]
  /\ kv_interfaces = {}
  /\ kv_by_addr = {}
  /\ insert_result = [trace |-> NoTrace, status |-> "none", calls |-> <<>>]

\* what an insert leaves alone
kv_frame == <<sched_vars, detect_vars, event_vars, block_vars, tail_vars, scan_vars,
             convert_vars>>

\* delete_db_subtree: the keys of the stored node under key and of the stored
\* nodes its stored out-messages lead to
RECURSIVE delete_db_subtree(_, _)
delete_db_subtree(key, stored) ==
  IF key \notin DOMAIN stored \/ stored[key] = NoStored THEN {}
  ELSE UNION {delete_db_subtree(stored[key].out_msgs[i], stored) :
                i \in DOMAIN stored[key].out_msgs} \cup {key}

\* tx_keys_to_delete: delete_db_subtree of every node of the trace that is not
\* emulated
tx_keys_to_delete(trace, stored) ==
  UNION {delete_db_subtree(n.key, stored) : n \in {x \in trace.nodes : ~x.emulated}}

\* a transaction that was observed stays observed: the traces of one trace id
\* arrive in the order of their blocks
later_trace(trace, stored) ==
  \A n \in trace.nodes : (stored[n.key] # NoStored /\ ~stored[n.key].emulated) => ~n.emulated

\* where start_up can fail: parse_tx of a node returns an error, msgpack
\* raises on a stored node that delete_db_subtree reads, msgpack raises on a
\* node or on interfaces while the writes are issued
Failures == {"none", "parse_tx", "unpack", "pack"}

\* the writes of start_up as they are put on transaction_, in their order
writes(tx_keys) ==
  (IF tx_keys = {} THEN <<>> ELSE <<"hdel", "zrem">>)
    \o <<"hset", "zadd", "hset_interfaces", "publish">>

\* start_up with exec called on every path, as from a scope guard
start_up_calls_ExecAlways(failure, tx_keys) ==
  CASE failure = "parse_tx" -> <<"exec", "set_error", "stop">>
    [] failure = "unpack" -> <<"exec", "set_error", "stop">>
    [] failure = "pack" ->
         (IF tx_keys = {} THEN <<>> ELSE <<"hdel", "zrem">>) \o <<"exec", "set_error", "stop">>
    [] OTHER -> writes(tx_keys) \o <<"exec", "set_value", "stop">>

\* the calls start_up makes on transaction_ and promise_, in their order
start_up_calls(failure, tx_keys) ==
  CASE failure = "parse_tx" -> <<"set_error", "stop">>
    [] failure = "unpack" -> <<"set_error", "stop">>
    [] failure = "pack" ->
         (IF tx_keys = {} THEN <<>> ELSE <<"hdel", "zrem">>) \o <<"set_error", "stop">>
    [] OTHER -> writes(tx_keys) \o <<"exec", "set_value", "stop">>

\* TaskResultInserter::start_up: the stored subtrees are deleted, the nodes
\* and the interfaces of their accounts are written, in one transaction;
\* the writes take effect at exec, which a failure never reaches
insert(trace, failure) ==
  /\ later_trace(trace, kv_tx)
  /\ LET tx_keys == tx_keys_to_delete(trace, kv_tx)
         addr_keys == {<<kv_tx[k].account, k>> : k \in tx_keys}
         calls == start_up_calls(failure, tx_keys)
     IN /\ failure = "unpack" => tx_keys # {}
        /\ insert_result' =
             [trace |-> trace,
              status |-> IF failure = "none" THEN "ok" ELSE "error",
              calls |-> calls]
        /\ IF \E i \in DOMAIN calls : calls[i] = "exec"
           THEN /\ kv_tx' = [k \in KvKeys |->
                               IF \E n \in trace.nodes : n.key = k
                               THEN CHOOSE n \in trace.nodes : n.key = k
                               ELSE IF k \in tx_keys THEN NoStored
                               ELSE kv_tx[k]]
                /\ kv_by_addr' = (kv_by_addr \ addr_keys)
                                   \cup {<<n.account, n.key>> : n \in trace.nodes}
                /\ kv_interfaces' = kv_interfaces \cup {n.account : n \in trace.nodes}
           ELSE UNCHANGED <<kv_tx, kv_interfaces, kv_by_addr>>
  /\ UNCHANGED kv_frame

InsertNext == \E trace \in Traces, failure \in Failures : insert(trace, failure)

\* --------------------------------------------------------------------------
\* ShardStateScanner: the accounts of a shard state are scanned in batches
\* --------------------------------------------------------------------------

MaxAddr == 4

\* the addresses of accounts; 0 is td::Bits256::zero()
ScanAddrs == 0..MaxAddr

batch_size_ == 2

MaxInProgress == 2

MaxRestarts == 2

ScanInit ==
  scanner = [pc |-> "idle", accounts |-> {}, cur_addr_ |-> 0, allow_same |-> TRUE,
             finished |-> FALSE, queue_ |-> <<>>, in_progress_ |-> {},
             checkpoint |-> 0, emitted |-> {}, restarts |-> 0]

scan_frame == <<sched_vars, detect_vars, event_vars, block_vars, tail_vars, kv_vars,
               convert_vars>>

\* the nearest key after the cursor, whatever allow_same says
lookup_nearest_key_Strict(accounts, key, same) ==
  IF \E a \in accounts : a > key
  THEN SetMin({a \in accounts : a > key})
  ELSE -1

\* lookup_nearest_key(key, 256, true, allow_same): the nearest key in ascending
\* order, the key itself only with allow_same; -1 for a null result
lookup_nearest_key(accounts, key, same) ==
  IF \E a \in accounts : a > key \/ (same /\ a = key)
  THEN SetMin({a \in accounts : a > key \/ (same /\ a = key)})
  ELSE -1

\* ShardStateScanner::start_up: the scan of a shard state begins at
\* options_.cur_addr, the zero address without a checkpoint
scan_start_up(accounts) ==
  /\ scanner.pc = "idle"
  /\ scanner' = [scanner EXCEPT !.pc = "running", !.accounts = accounts]
  /\ UNCHANGED scan_frame

\* the accounts read from the cursor on until the queue is a batch or the
\* dictionary ends: the queue, the cursor, allow_same, finished
RECURSIVE read_accounts(_, _, _, _)
read_accounts(accounts, batch, key, same) ==
  IF Len(batch) = batch_size_
  THEN [queue_ |-> batch, cur_addr_ |-> key, allow_same |-> same, finished |-> FALSE]
  ELSE LET next == lookup_nearest_key(accounts, key, same)
       IN IF next = -1
          THEN [queue_ |-> batch, cur_addr_ |-> key, allow_same |-> same, finished |-> TRUE]
          ELSE read_accounts(accounts, Append(batch, next), next, FALSE)

\* ShardStateScanner::schedule_next: the next batch is read and handed to a
\* StateBatchParser
schedule_next ==
  /\ scanner.pc = "running" /\ ~scanner.finished
  /\ Cardinality(scanner.in_progress_) < MaxInProgress
  /\ LET read == read_accounts(scanner.accounts, scanner.queue_, scanner.cur_addr_,
                               scanner.allow_same)
     IN scanner' = [scanner EXCEPT
                      !.cur_addr_ = read.cur_addr_,
                      !.allow_same = read.allow_same,
                      !.finished = read.finished,
                      !.queue_ = <<>>,
                      !.in_progress_ = IF read.queue_ = <<>> THEN @ ELSE @ \cup {read.queue_}]
  /\ UNCHANGED scan_frame

\* the cursor that is persisted: the highest emitted address that this scan
\* has read and that no batch in flight lies below
persisted_cursor(checkpoint, emitted, pending, cursor) ==
  SetMax({checkpoint} \cup {a \in emitted : a <= cursor /\ \A b \in pending : a < b[1]})

\* ShardStateScanner::batch_inserted: the entities of a batch are stored and
\* the cursor is persisted
batch_inserted(batch) ==
  /\ scanner.pc = "running"
  /\ batch \in scanner.in_progress_
  /\ LET emitted == scanner.emitted \cup Range(batch)
         pending == scanner.in_progress_ \ {batch}
     IN scanner' = [scanner EXCEPT
                      !.emitted = emitted,
                      !.in_progress_ = pending,
                      !.checkpoint = persisted_cursor(@, emitted, pending, scanner.cur_addr_),
                      !.pc = IF scanner.finished /\ pending = {} THEN "done" ELSE @]
  /\ UNCHANGED scan_frame

\* the scan of a shard state without accounts left ends at once
scan_finished ==
  /\ scanner.pc = "running" /\ scanner.finished /\ scanner.in_progress_ = {}
  /\ scanner' = [scanner EXCEPT !.pc = "done"]
  /\ UNCHANGED scan_frame

\* the process is interrupted and started again with from_checkpoint: the
\* scanner is built anew with the persisted cur_addr, what was stored stays
scan_restart ==
  /\ scanner.pc = "running"
  /\ scanner.restarts < MaxRestarts
  /\ scanner' = [scanner EXCEPT
                   !.cur_addr_ = scanner.checkpoint,
                   !.allow_same = TRUE,
                   !.finished = FALSE,
                   !.queue_ = <<>>,
                   !.in_progress_ = {},
                   !.restarts = @ + 1]
  /\ UNCHANGED scan_frame

ScanNext ==
  \/ \E accounts \in SUBSET ScanAddrs : scan_start_up(accounts)
  \/ schedule_next
  \/ \E batch \in scanner.in_progress_ : batch_inserted(batch)
  \/ scan_finished
  \/ scan_restart

\* --------------------------------------------------------------------------
\* ton-emulate-go, models/convert.go: the trace stored in a Redis hash is
\* converted to a tree of TraceNodeShort. A string or a byte slice is a
\* sequence of numbers, "" is <<>>
\* --------------------------------------------------------------------------

\* the message hashes of the stored trace are 1..MaxHash
MaxHash == 4

Hashes == 1..MaxHash

\* nil
nil == "nil"

\* the field "root_node" of the hash
root_node == <<0>>

\* base64.StdEncoding.EncodeToString(outMsg.Hash[:]): the text of the hash,
\* different for different hashes and never the name of another field
EncodeToString(hash) == <<64, hash>>

\* the transaction that consumed the message: the first sends two messages,
\* the consumer of the first of them sends one more
Transaction(in_msg) ==
  [Hash |-> 10 + in_msg, InMsg |-> in_msg,
   OutMsgs |-> CASE in_msg = 1 -> <<2, 3>>
                 [] in_msg = 2 -> <<4>>
                 [] OTHER -> <<>>]

\* the msgpack bytes of a TraceNode as the emulator stores it: an array
\* header, then the fields
Marshal(transaction) ==
  <<147, transaction.Hash, transaction.InMsg>> \o transaction.OutMsgs

\* msgpack.Unmarshal(nodeBytes, &node): an error for bytes that are no node
Unmarshal(nodeBytes) ==
  IF Len(nodeBytes) >= 3 /\ nodeBytes[1] = 147
  THEN [err |-> FALSE,
        node |-> [Hash |-> nodeBytes[2], InMsg |-> nodeBytes[3],
                  OutMsgs |-> SubSeq(nodeBytes, 4, Len(nodeBytes))]]
  ELSE [err |-> TRUE, node |-> nil]

\* what the field of a message can hold: nothing, cut-off bytes, the node
Stored == {"empty", "cut", "node"}

\* a hash as read by HGETALL: the fields of the messages D, each holding
\* what stored says, and root_node naming the field of the message root
\* (0: there is no root_node)
Hset(D, root, stored) ==
  [k \in {EncodeToString(h) : h \in D} \cup (IF root = 0 THEN {} ELSE {root_node}) |->
     IF k = root_node THEN EncodeToString(root)
     ELSE CASE stored[k[2]] = "empty" -> <<>>
            [] stored[k[2]] = "cut" -> <<147, 10 + k[2]>>
            [] OTHER -> Marshal(Transaction(k[2]))]

\* hset[key] of a Go map: the zero value "" for a key that is not there
Get(hset, key) == IF key \in DOMAIN hset THEN hset[key] ELSE <<>>

\* a field counts as present only when it is not empty
key_exists_NotEmpty(hset, key) == Get(hset, key) # <<>>

\* childBytes, exists := hset[msgKey]
key_exists(hset, key) == key \in DOMAIN hset

\* txMap[hash] = transaction
put(txMap, hash, transaction) ==
  [h \in DOMAIN txMap \cup {hash} |-> IF h = hash THEN transaction ELSE txMap[h]]

RECURSIVE convertNode(_, _, _)
RECURSIVE convert_children(_, _, _, _, _)

\* convertNode, the loop over node.Transaction.OutMsgs from position i on,
\* with short.Children and txMap as they are by then
convert_children(hset, OutMsgs, i, Children, txMap) ==
  IF i > Len(OutMsgs) THEN [err |-> FALSE, Children |-> Children, txMap |-> txMap]
  ELSE LET msgKey == EncodeToString(OutMsgs[i])
       IN IF key_exists(hset, msgKey)
          THEN LET child == convertNode(hset, hset[msgKey], txMap)
               IN IF child.err
                  THEN [err |-> TRUE, Children |-> Children, txMap |-> child.txMap]
                  ELSE convert_children(hset, OutMsgs, i + 1,
                                        Append(Children, child.node), child.txMap)
          ELSE convert_children(hset, OutMsgs, i + 1, Children, txMap)

\* convertNode: the node is decoded, its transaction goes to txMap, and the
\* children are converted; txMap is the caller's map, written in place
convertNode(hset, nodeBytes, txMap) ==
  LET decoded == Unmarshal(nodeBytes)
  IN IF decoded.err THEN [err |-> TRUE, node |-> nil, txMap |-> txMap]
     ELSE LET written == put(txMap, decoded.node.Hash, decoded.node)
              loop == convert_children(hset, decoded.node.OutMsgs, 1, <<>>, written)
          IN IF loop.err THEN [err |-> TRUE, node |-> nil, txMap |-> loop.txMap]
             ELSE [err |-> FALSE,
                   node |-> [TransactionHash |-> decoded.node.Hash,
                             InMsgHash |-> decoded.node.InMsg,
                             Children |-> loop.Children],
                   txMap |-> loop.txMap]

\* ConvertHsetToTraceNodeShort: what it returns
ConvertHsetToTraceNodeShort(hset) ==
  LET trace_id == Get(hset, root_node)
      rootNodeBytes == Get(hset, trace_id)
  IN IF Len(rootNodeBytes) = 0 THEN [err |-> TRUE, node |-> nil, txMap |-> nil]
     ELSE LET converted == convertNode(hset, rootNodeBytes, <<>>)
          IN IF converted.err THEN [err |-> TRUE, node |-> nil, txMap |-> nil]
             ELSE [err |-> FALSE, node |-> converted.node, txMap |-> converted.txMap]

\* no call was made yet
ConvertInit == conversion = [pc |-> "idle", hset |-> <<>>, result |-> nil]

\* what a call of the conversion leaves alone
convert_frame == <<sched_vars, detect_vars, event_vars, block_vars, tail_vars, kv_vars,
                  scan_vars>>

\* a call of ConvertHsetToTraceNodeShort with the hash read from Redis
convert(hset) ==
  /\ conversion' = [pc |-> "returned", hset |-> hset,
                    result |-> ConvertHsetToTraceNodeShort(hset)]
  /\ UNCHANGED convert_frame

ConvertNext ==
  \E D \in SUBSET Hashes, root \in 0..2 : \E stored \in [D -> Stored] :
    convert(Hset(D, root, stored))

Init ==
  /\ SchedInit /\ DetectInit /\ EventInit /\ BlockInit /\ TailInit /\ KvInit /\ ScanInit
  /\ ConvertInit

SpecDetect == Init /\ [][DetectNext]_vars

SpecEvents == Init /\ [][EventNext]_vars

SpecBlock == Init /\ [][BlockNext]_vars

FairSpecBlock == SpecBlock /\ BlockFairness

SpecTail == Init /\ [][TailNext]_vars

SpecInsert == Init /\ [][InsertNext]_vars

SpecScan == Init /\ [][ScanNext]_vars

SpecConvert == Init /\ [][ConvertNext]_vars

FairSpecTail == SpecTail /\ TailFairness

Next ==
  \/ \E E \in SUBSET Seqnos : got_existing_seqnos(E)
  \/ \E t \in 0..MaxSeqno : got_last_known_seqno(t)
  \/ \E t \in 0..MaxSeqno, qs \in QueueStatuses, est \in Estimates :
       alarm(t, qs, est)
  \/ \E s \in Seqnos : seqno_fetched(s)
  \/ \E s \in Seqnos : seqno_parsed(s)
  \/ \E s \in Seqnos : seqno_interfaces_processed(s)
  \/ \E s \in Seqnos, qs \in QueueStatuses : seqno_queued_to_insert(s, qs)
  \/ \E s \in Seqnos : insert_batch_finished(s)
  \/ \E s \in Seqnos : seqno_inserted(s)
  \/ \E s \in Seqnos : reschedule_seqno(s)
  \/ \E s \in Seqnos : backoff_expired(s)

\* the scheduler neither reads nor writes the database of the detectors: its
\* runs start with the empty one
SchedStart == Init /\ db = NoEntities

Spec == SchedStart /\ [][Next]_vars

\* the scheduling the actor framework guarantees: every reply and completion
\* is delivered, the alarm keeps firing, retry delays run out, and the insert
\* queue is seen drained again and again
Fairness ==
  /\ WF_vars(\E E \in SUBSET Seqnos : got_existing_seqnos(E))
  /\ WF_vars(\E t \in 0..MaxSeqno : got_last_known_seqno(t))
  /\ WF_vars(\E t \in 0..MaxSeqno, est \in Estimates :
               alarm(t, EmptyQueueStatus, est))
  /\ \A s \in Seqnos :
       /\ WF_vars(seqno_fetched(s))
       /\ WF_vars(seqno_parsed(s))
       /\ WF_vars(seqno_interfaces_processed(s))
       /\ WF_vars(\E qs \in QueueStatuses : seqno_queued_to_insert(s, qs))
       /\ WF_vars(insert_batch_finished(s))
       /\ WF_vars(seqno_inserted(s))
       /\ WF_vars(backoff_expired(s))

FairSpec == SchedStart /\ [][Next]_vars /\ Fairness

(***************************************************************************)
(* Properties of the scheduler.                                            *)
(***************************************************************************)
Scheduling == started = {"existing", "tip"}

\* the seqnos a step puts in flight
NewlyDispatched == processing_seqnos_' \ processing_seqnos_

\* the seqnos a step reports done
NewlyDone == {s \in Seqnos : done_count'[s] # done_count[s]}

\* C1 (P1): the seqnos ever dispatched are seqnos 1..tip that were not
\* existing at start-up; no seqno is reported done twice and only dispatched
\* seqnos are; and every seqno up to the tip that was not existing at
\* start-up is eventually dispatched and reported done exactly once.
C1_Safe ==
  /\ dispatched \subseteq (1..last_known_seqno_) \ initial_existing
  /\ \A s \in Seqnos : /\ done_count[s] <= 1
                       /\ done_count[s] = 1 => s \in dispatched
                       /\ s \in existing_seqnos_ <=>
                            (s \in initial_existing \/ done_count[s] = 1)

C1_DispatchedAndDoneOnce ==
  /\ []C1_Safe
  /\ \A s \in Seqnos :
       (Scheduling /\ s <= last_known_seqno_ /\ s \notin initial_existing)
         ~> (s \in dispatched /\ done_count[s] = 1)

C1_Witness ==
  /\ Scheduling
  /\ initial_existing = {2}
  /\ last_known_seqno_ = MaxSeqno
  /\ dispatched = (1..MaxSeqno) \ {2}
  /\ \A s \in dispatched : done_count[s] = 1
  /\ failures > 0

\* C2 (P2): at most max_active_tasks seqnos are in processing.
C2_ProcessingBounded == Cardinality(processing_seqnos_) <= max_active_tasks_

C2_Witness ==
  /\ Cardinality(processing_seqnos_) = max_active_tasks_
  /\ \E s \in Seqnos : /\ s <= last_known_seqno_
                       /\ s \notin existing_seqnos_ \cup processing_seqnos_
                       /\ s \notin backoff
  /\ cur_queue_status_ = EmptyQueueStatus

\* C3: a step dispatches seqnos only if, for each of the four queues, the
\* depth just read plus the reserved contribution of every seqno then in
\* flight, the dispatched ones included, is within the cap; with 8 queued
\* transactions, a cap of 10 and 5 reserved per seqno a pass admits at most
\* one seqno.
C3_Backpressure ==
  [][ /\ NewlyDispatched # {} =>
           \A q \in Queues :
             cur_queue_status_'[q]
               + reserved_'[q] * Cardinality(processing_seqnos_') <= MaxQueue[q]
      /\ (pass_tick' # pass_tick /\ cur_queue_status_'["txs"] = 8
             /\ reserved_'["txs"] = 5) =>
           Cardinality(NewlyDispatched) <= 1 ]_vars

C3_Witness ==
  /\ Cardinality(last_pass) = 1
  /\ processing_seqnos_ = last_pass
  /\ cur_queue_status_["blocks"] = 1
  /\ reserved_["blocks"] = 2
  /\ \E s \in Seqnos : /\ s > last_indexed_seqno_ /\ s <= last_known_seqno_
                       /\ s \notin existing_seqnos_ \cup processing_seqnos_
                       /\ s \notin backoff

\* the upper end of the largest contiguous prefix of existing
C4_PrefixEnd ==
  CHOOSE n \in 0..MaxSeqno :
    /\ \A k \in 1..n : k \in existing_seqnos_
    /\ (n + 1) \in Seqnos => (n + 1) \notin existing_seqnos_

C5_FailureRequeues ==
  /\ [][ \A s \in Seqnos :
           (stage[s] \in InFlight /\ stage'[s] = "queued") =>
             (s \in queued_seqnos_' /\ s \notin processing_seqnos_') ]_vars
  /\ [](\A s \in queued_seqnos_ : s \notin processing_seqnos_ /\ stage[s] = "queued")
  /\ \A s \in Seqnos : (s \in queued_seqnos_) ~> (s \in existing_seqnos_)

\* a stage has failed, and every seqno ever dispatched is done all the same
C5_Witness ==
  /\ failures > 0
  /\ queued_seqnos_ = {}
  /\ dispatched # {}
  /\ \A s \in dispatched : done_count[s] = 1

\* the order of the stages of one seqno
C6_Order == <<"fetching", "parsing", "detecting", "awaiting_admission",
              "inserting", "done">>

\* C6: a seqno changes stage only to the next stage of the pipeline, or from
\* queued to fetching when it is dispatched, or back to queued when a stage
\* fails (or, before scheduling begins, to done for a seqno found existing).
C6_StagesInOrder ==
  [][ \A s \in Seqnos :
        stage'[s] # stage[s] =>
          \/ \E i \in 1..(Len(C6_Order) - 1) :
               stage[s] = C6_Order[i] /\ stage'[s] = C6_Order[i + 1]
          \/ stage[s] = "queued" /\ stage'[s] = "fetching"
          \/ stage[s] \in InFlight /\ stage'[s] = "queued"
          \/ ~Scheduling /\ stage[s] = "queued" /\ stage'[s] = "done" ]_vars

C6_Witness ==
  /\ stage[1] = "inserting"
  /\ stage[2] = "parsing"
  /\ failures = 0

\* C7 (I5): a seqno is in existing, and last_indexed_seqno covers it, only
\* if the insert manager has committed it.
C7_InsertedOnlyWhenDurable ==
  /\ existing_seqnos_ \subseteq durable
  /\ \A k \in 1..last_indexed_seqno_ : k \in durable
  /\ \A s \in Seqnos : done_count[s] > 0 => s \in durable

C7_Witness ==
  /\ initial_existing = {}
  /\ last_indexed_seqno_ = 1
  /\ 2 \in durable
  /\ 2 \notin existing_seqnos_

\* the seqnos the selection rule names before a pass that reads tip lk
C8_Rule(lk) ==
  {s \in Seqnos : /\ s > last_indexed_seqno_
                  /\ s <= lk
                  /\ s \notin existing_seqnos_ \cup processing_seqnos_}

\* no cap binds at the end of the pass: one more seqno could be admitted
C8_NoCapBinds ==
  /\ Cardinality(processing_seqnos_') < max_active_tasks_
  /\ \A q \in Queues :
       cur_queue_status_'[q]
         + reserved_'[q] * (Cardinality(processing_seqnos_') + 1) <= MaxQueue[q]

DetectCompleted == call.pc # "idle" /\ call'.pc = "idle"

\* the entity that was cached for the call's address when detect was called
\* has other hashes than the cells of the call
C9_HashesDiffer == call.code # call.pre.code_hash \/ call.data # call.pre.data_hash

C10_SecondDetectServedFromCache ==
  [][ ( /\ DetectCompleted
        /\ result.status = "ok"
        /\ result.kind = call.kind
        /\ result.address = call.address
        /\ result.code = call.code
        /\ result.data = call.data
        /\ result'.verdict # "false" ) =>
      ( /\ result'.status = "ok"
        /\ result'.value = result.value
        /\ result'.vm = 0 ) ]_vars

\* the step in which verify_belonging_to_master completes a wallet call
C11_Verifying ==
  DetectCompleted /\ call.pc \in {"get_wallet_address", "master_get_entity"}

\* the master that step finds: in the master cache, or else in the database
C11_Master ==
  IF call.pc = "get_wallet_address"
  THEN entity_cache_["JettonMaster"][jetton(call.data)]
  ELSE db["JettonMaster"][jetton(call.data)]

\* the master is known, its getter runs and names the wallet's own address
C11_CheckPassed ==
  /\ C11_Master # NoEntity
  /\ run_get_method(C11_Master.code_boc)
  /\ get_wallet_address_impl(C11_Master, call.address) = call.address

\* C11 as stated: a wallet is returned by a detection that built it, put in
\* the wallet cache or upserted only if its master's get_wallet_address
\* named the wallet's own address.
C11_WalletOnlyIfCheckPassed ==
  [][ ( \/ C11_Verifying /\ result'.status = "ok"
        \/ db'["JettonWallet"] # db["JettonWallet"]
        \/ \E a \in Addrs :
             /\ entity_cache_'["JettonWallet"][a] # entity_cache_["JettonWallet"][a]
             /\ entity_cache_'["JettonWallet"][a]
                  \notin {NoEntity, db["JettonWallet"][a]} ) =>
      C11_CheckPassed ]_vars

\* C11 as amended: a wallet is returned by a detection that built it, put in
\* the wallet cache or upserted only by verify_belonging_to_master, and then
\* exactly if either its master's get_wallet_address named the wallet's own
\* address or the master was found neither in the master cache nor in the
\* database; a wallet whose known master names another address, or whose
\* master's getter or lookup fails, is an error and is neither cached nor
\* upserted.
C11_WalletCheckedOrMasterUnknown ==
  [][ /\ ( \/ db'["JettonWallet"] # db["JettonWallet"]
           \/ \E a \in Addrs :
                /\ entity_cache_'["JettonWallet"][a] # entity_cache_["JettonWallet"][a]
                /\ entity_cache_'["JettonWallet"][a]
                     \notin {NoEntity, db["JettonWallet"][a]} ) =>
           (C11_Verifying /\ result'.status = "ok")
      /\ C11_Verifying =>
           IF /\ result'.error # QueryFailed
              /\ C11_Master = NoEntity \/ C11_CheckPassed
           THEN /\ result'.status = "ok"
                /\ result'.value = call.built
                /\ db'["JettonWallet"][call.address] = call.built
           ELSE /\ result'.status = "error"
                /\ db'["JettonWallet"] = db["JettonWallet"]
                /\ entity_cache_'["JettonWallet"] = entity_cache_["JettonWallet"] ]_vars

\* a wallet was built, checked against its cached master and cached
C11_Witness ==
  /\ result.kind = "JettonWallet"
  /\ result.status = "ok"
  /\ result.vm = 2
  /\ entity_cache_["JettonMaster"][jetton(result.data)] # NoEntity
  /\ entity_cache_["JettonWallet"][result.address] = result.value

\* the step in which the lambda of NFTItemDetector::detect_impl completes an
\* item call, given the collection
C12_Verifying ==
  DetectCompleted /\ call.pc \in {"get_from_cache", "collection_get_entity"}

\* the collection that step finds: in the collection cache, or else in the
\* database
C12_Collection ==
  IF call.pc = "get_from_cache"
  THEN entity_cache_["NFTCollection"][collection_address(call.data)]
  ELSE db["NFTCollection"][collection_address(call.data)]

\* the collection's get_nft_address_by_index runs and names the item's address
C12_CheckPassed ==
  /\ run_get_method(C12_Collection.code_boc)
  /\ verify_belonging_to_collection(call.address, C12_Collection)

\* C12: an item of a known collection is returned, cached and upserted if the
\* collection's get_nft_address_by_index names the item's own address; if the
\* verification fails the detection is an error and the item is neither
\* added to the item cache nor upserted.
C12_ItemOnlyIfVerified ==
  [][ (C12_Verifying /\ C12_Collection # NoEntity /\ result'.error # QueryFailed) =>
        IF C12_CheckPassed
        THEN /\ result'.status = "ok"
             /\ result'.value = call.built
             /\ db'["NFTItem"][call.address] = call.built
        ELSE /\ result'.status = "error"
             /\ db'["NFTItem"] = db["NFTItem"]
             /\ entity_cache_'["NFTItem"] = entity_cache_["NFTItem"] ]_vars

\* the error of a wallet that its master does not name
C13_PossiblyScam ==
  Status_Error("SMC_INTERFACE_PARSE_ERROR",
               "Couldn't verify Jetton Wallet. Possibly scam.")

\* the master's getter runs in the verifying step and names another address
\* than the wallet's own
C13_Mismatch ==
  /\ C11_Master # NoEntity
  /\ result'.vm = call.vm + 1
  /\ run_get_method(C11_Master.code_boc)
  /\ get_wallet_address_impl(C11_Master, call.address) # call.address

\* the call in flight is a detect of the wallet that the last completed call
\* rejected as possibly scam, and the wallet was not held before
C13_DetectAfterScam ==
  /\ call.kind = "JettonWallet"
  /\ result.kind = "JettonWallet"
  /\ result.status = "error"
  /\ result.error = C13_PossiblyScam
  /\ call.address = result.address
  /\ call.code = result.code
  /\ call.data = result.data
  /\ call.pre = NoEntity
  /\ db["JettonWallet"][call.address] = NoEntity

C14_Interface(kind) ==
  CASE kind = "JettonMaster" -> "IT_JETTON_MASTER"
    [] kind = "JettonWallet" -> "IT_JETTON_WALLET"
    [] kind = "NFTCollection" -> "IT_NFT_COLLECTION"
    [] kind = "NFTItem" -> "IT_NFT_ITEM"

\* C14: when the verdict stored for the call's code hash and the detector's
\* own interface is false, detect completes with SMC_INTERFACE_PARSE_ERROR
\* and neither the entity cache, the database nor the VM is used; when it is
\* true or absent, detect goes on to the entity cache check.
C14_PrecheckByOwnInterface ==
  [][ (call.pc = "check_interface" /\ call'.pc # "check_interface") =>
        IF check_interface(call.code, C14_Interface(call.kind)) = "false"
        THEN /\ DetectCompleted
             /\ result'.status = "error"
             /\ result'.error.code = "SMC_INTERFACE_PARSE_ERROR"
             /\ result'.vm = 0
             /\ entity_cache_' = entity_cache_
             /\ db' = db
        ELSE call'.pc = "detect_continue" ]_vars

\* C15: a set_interface call leaves every verdict that is already stored as
\* it is, so that check_interface keeps returning the value first stored for
\* a key.
C15_VerdictNeverFlips ==
  [][ verdicts_set' # verdicts_set =>
        \A code_hash \in CodeHashes, interface \in Tags :
          check_interface(code_hash, interface) # "NOT_FOUND" =>
            interface_cache_'[<<code_hash, interface>>]
              = check_interface(code_hash, interface) ]_vars

\* C16: after a detection that ran the getter and succeeded, the entity cache
\* and the database both hold the entity just returned for the address,
\* whatever the cache held for it before.
C16_WriteThrough ==
  [][ (DetectCompleted /\ result'.status = "ok" /\ result'.vm > 0) =>
        /\ entity_cache_'[call.kind][call.address] = result'.value
        /\ db'[call.kind][call.address] = result'.value ]_vars

\* C17: after a detection that ran the getter and succeeded, the verdict
\* stored for the account's code hash and the detector's tag is true.
C17_SuccessStoresVerdict ==
  [][ (DetectCompleted /\ result'.status = "ok" /\ result'.vm > 0) =>
        interface_cache_'[<<call.code, Tag(call.kind)>>] = "true" ]_vars

\* C18: the step in which a handler sets an error on the promise of the call
\* is its last: it writes nothing to the detector's entity cache and upserts
\* nothing.
C18_NothingAfterError ==
  [][ (DetectCompleted /\ result'.status = "error") =>
        /\ entity_cache_'[call.kind] = entity_cache_[call.kind]
        /\ db' = db ]_vars

\* the step of detect_impl that runs the detector's getter
C19_GetterStep == call.pc = "detect_impl" /\ call'.pc # "detect_impl"

\* C19: if the detector's getter fails in the VM, or its stack differs from
\* the expected signature in depth or in the type of a slot, the call
\* completes with SMC_INTERFACE_PARSE_ERROR and the entity cache and the
\* database stay as they were; otherwise an entity is built for the address
\* from the call's cells.
C19_EntityOnlyFromSignature ==
  [][ C19_GetterStep =>
        LET res == smc_run_get_method(call.kind, call.code)
        IN IF ~res.success \/ res.stack # return_types(call.kind)
           THEN /\ DetectCompleted
                /\ result'.status = "error"
                /\ result'.error.code = "SMC_INTERFACE_PARSE_ERROR"
                /\ result'.value = NoEntity
                /\ result'.vm = call.vm + 1
                /\ entity_cache_' = entity_cache_
                /\ db' = db
           ELSE LET data == IF DetectCompleted THEN result'.value ELSE call'.built
                IN /\ data.address = call.address
                   /\ data.data_hash = call.data
                   /\ data.last_transaction_lt = call.lt
                   /\ DetectCompleted => result'.status = "ok" ]_vars

\* get_nft_data left a stack of the right depth with a cell where a slice is
\* expected, and the item call ended with the error after one getter run
C19_Witness ==
  /\ result.kind = "NFTItem"
  /\ result.code = "c2"
  /\ Len(smc_run_get_method(result.kind, result.code).stack)
       = Len(return_types(result.kind))
  /\ result.status = "error"
  /\ result.error = Status_Error("SMC_INTERFACE_PARSE_ERROR", "getter failed")
  /\ result.vm = 1
  /\ db["NFTItem"] = NoEntities["NFTItem"]

\* the error of an item whose collection is not known
C20_NotIndexed ==
  Status_Error("SMC_INTERFACE_PARSE_ERROR", "Collection was not indexed yet")

\* C20: when the item's collection is in neither the collection cache nor the
\* database, the item call completes with "Collection was not indexed yet",
\* no getter of a collection runs, and the item cache and the database stay
\* as they were; when the lookup fails otherwise, its error is the error of
\* the call; and "Collection was not indexed yet" is given in no other case.
C20_CollectionNotIndexed ==
  [][ /\ (C12_Verifying /\ call.pc = "collection_get_entity") =>
           /\ (C12_Collection = NoEntity /\ result'.error # QueryFailed) =>
                result'.error = C20_NotIndexed
           /\ result'.error \in {C20_NotIndexed, QueryFailed} =>
                /\ result'.status = "error"
                /\ result'.vm = call.vm
                /\ entity_cache_' = entity_cache_
                /\ db' = db
      /\ (DetectCompleted /\ result'.error = C20_NotIndexed) =>
           /\ call.pc = "collection_get_entity"
           /\ C12_Collection = NoEntity ]_vars

\* an item call ended with "Collection was not indexed yet" after the one
\* run of get_nft_data
C20_Witness ==
  /\ result.kind = "NFTItem"
  /\ result.error = C20_NotIndexed
  /\ result.vm = 1
  /\ db["NFTCollection"] = NoEntities["NFTCollection"]
  /\ db["NFTItem"] = NoEntities["NFTItem"]
  /\ entity_cache_["NFTItem"] = NoEntities["NFTItem"]

\* --------------------------------------------------------------------------
\* Properties of the event parsers
\* --------------------------------------------------------------------------

\* the account of the parse call c is in the cache of the handler's detector
C21_Known(c, cache) ==
  cache[HandlerKind(c.handler)][account(HandlerKind(c.handler))] # NoEntity

\* the lookup of the call in flight ends and the database has no such entity
C21_NotFound ==
  /\ event_call.pc = "get_entity"
  /\ event_call'.pc # "get_entity"
  /\ db[HandlerKind(event_call.handler)][account(HandlerKind(event_call.handler))]
       = NoEntity
  /\ event_result'.error # QueryFailed

\* C21: parse_transfer and parse_burn hand the body to the unpacking handler
\* only when the transaction's account is known, in the entity cache or the
\* database, as an entity of the handler's detector; when the account is not
\* found the promise gets EVENT_PARSE_ERROR, the body is not unpacked and no
\* event is produced
C21_UnpackOnlyIfKnown ==
  [][ /\ (event_call.pc # "parse_impl" /\ event_call'.pc = "parse_impl")
         => C21_Known(event_call', entity_cache_')
      /\ (event_call.pc # "idle" /\ event_call'.pc = "idle" /\ event_result'.unpacked)
         => event_result'.known
      /\ C21_NotFound
         => /\ event_call'.pc = "idle"
            /\ event_result'.status = "error"
            /\ event_result'.error.code = "EVENT_PARSE_ERROR"
            /\ ~event_result'.unpacked
            /\ event_result'.event = NoEvent ]_vars

\* a parse call of an account nobody indexed ended with the error
C21_Witness ==
  /\ event_result.status = "error"
  /\ event_result.error = Status_Error("EVENT_PARSE_ERROR", "Jetton Wallet not found")
  /\ ~event_result.unpacked
  /\ ~event_result.known

\* the body of a handler's call carries a malformed integer or address among
\* the fields the handler decodes
C22_Malformed(handler, body) ==
  CASE handler = "jetton_transfer" ->
         \/ body.amount = "null"
         \/ body.forward_amount = "null"
         \/ body.destination = "malformed"
         \/ body.response_destination = "malformed"
    [] handler = "jetton_burn" ->
         \/ body.amount = "null"
         \/ body.response_destination = "malformed"
    [] handler = "nft_transfer" ->
         \/ body.forward_amount = "null"
         \/ body.destination = "malformed"
         \/ body.response_destination = "malformed"
    [] OTHER -> FALSE

\* C22: a parse_transfer or parse_burn call of the jetton wallet parser or a
\* parse_transfer call of the NFT item parser whose body unpacks but carries
\* a malformed address or integer (amount, forward amount, destination,
\* response destination, new owner) completes the promise with error code
\* EVENT_PARSE_ERROR and delivers no event value
C22_MalformedFailsParse ==
  ( /\ event_result.unpacked
    /\ event_result.body.unpack
    /\ C22_Malformed(event_result.handler, event_result.body) )
  => /\ event_result.status = "error"
     /\ event_result.error.code = "EVENT_PARSE_ERROR"
     /\ event_result.event = NoEvent

\* --------------------------------------------------------------------------
\* Properties of McBlockEmulator
\* --------------------------------------------------------------------------

\* process_txs runs in this step
C23_Processed == mc.pc = "parsing" /\ mc'.pc = "emulating"

\* the transactions of the block that sent the in-message of t and have a
\* trace id after the step
C23_KnownEmitter(t) ==
  {p \in Emitter(t) \cap mc'.txs_ : initial_msg_hash'[p] # None}

\* the trace id the rules give t, first match first
C23_Rule(t) ==
  IF Tx[t].is_first THEN Tx[t].in_msg_hash
  ELSE IF C23_KnownEmitter(t) # {}
       THEN initial_msg_hash'[CHOOSE p \in C23_KnownEmitter(t) : TRUE]
  ELSE interblock_trace_ids_[Tx[t].in_msg_hash]

\* C23: process_txs gives every transaction of the block the trace id of the
\* first rule that matches: its own in-message hash if the in-message is
\* external-in; else the trace id of the transaction of the block that sent
\* its in-message, when that one has a trace id; else what
\* interblock_trace_ids_ held for its in-message hash; else none, and no
\* emulation is started from a transaction with none
C23_FirstMatchingRule ==
  [][ C23_Processed
      => \A t \in mc'.txs_ :
           /\ initial_msg_hash'[t] = C23_Rule(t)
           /\ initial_msg_hash'[t] = None => emulation'[t] = "none" ]_vars

\* a processed block with a transaction of each rule: one inherits from a
\* transaction of the block, one from an earlier block, one is left without
C23_Witness ==
  /\ mc.pc = "emulating"
  /\ \E t \in mc.txs_ :
       /\ ~Tx[t].is_first
       /\ Emitter(t) \subseteq mc.txs_
       /\ initial_msg_hash[t] # None
  /\ \E t \in mc.txs_ :
       /\ ~Tx[t].is_first
       /\ Emitter(t) \cap mc.txs_ = {}
       /\ initial_msg_hash[t] # None
  /\ \E t \in mc.txs_ : initial_msg_hash[t] = None /\ emulation[t] = "none"

\* every out-message of a transaction with a trace id maps to that id
C24_OutMsgsRecorded(hashes, ids) ==
  \A t \in Txs :
    hashes[t] # None => \A m \in Range(Tx[t].out_msgs) : ids[m] = hashes[t]

\* C24: trace ids carry across blocks: once a block is processed every
\* out-message hash of a transaction with a trace id maps to that id in
\* interblock_trace_ids_, from then on; and when a later block that holds the
\* transaction consuming such a message is processed, that transaction gets
\* the same trace id
C24_TraceIdsCarryOver ==
  [][ /\ C24_OutMsgsRecorded(initial_msg_hash', interblock_trace_ids_')
      /\ C23_Processed
         => \A t \in mc'.txs_ : \A p \in Emitter(t) :
              (block_of[p] < block_of[t] /\ initial_msg_hash[p] # None)
              => initial_msg_hash'[t] = initial_msg_hash[p] ]_vars

\* a transaction of a later block has the trace id of the transaction that
\* sent its in-message
C24_Witness ==
  \E t \in Txs : \E p \in Emitter(t) :
    /\ 0 < block_of[p]
    /\ block_of[p] < block_of[t]
    /\ initial_msg_hash[p] # None
    /\ initial_msg_hash[t] = initial_msg_hash[p]

\* the emulations of the block that carry trace id id and are in one of the
\* stages
C25_Emulations(id, stages) ==
  {t \in mc.txs_ : initial_msg_hash[t] = id /\ emulation[t] \in stages}

\* C25: within one block exactly one TraceTailEmulator is started per
\* distinct trace id: never are two emulations of one trace id in progress,
\* and at most one trace per trace id is handed to the trace processor
C25_OneEmulationPerTraceId ==
  mc.pc \in {"emulating", "finished"}
  => \A id \in {initial_msg_hash[t] : t \in mc.txs_} \ {None} :
       /\ Cardinality(C25_Emulations(id, EmulationStages \ {"none"})) = 1
       /\ Cardinality(C25_Emulations(id, InProgress)) <= 1
       /\ Cardinality(C25_Emulations(id, {"inserting", "finished"})) <= 1

\* a block with two transactions of one trace: the trace of the first one is
\* with the trace processor, none was started from the second
C25_Witness ==
  /\ mc.pc = "emulating"
  /\ \E t, u \in mc.txs_ :
       /\ t # u
       /\ initial_msg_hash[t] # None
       /\ initial_msg_hash[t] = initial_msg_hash[u]
       /\ emulation[t] = "inserting"
       /\ emulation[u] = "none"

\* --------------------------------------------------------------------------
\* Properties of TraceTailEmulator
\* --------------------------------------------------------------------------

\* following the parents from the node with this id leads to the root in at
\* most k steps
RECURSIVE C26_ReachesRoot(_, _)
C26_ReachesRoot(node_id, k) ==
  \E n \in nodes :
    /\ n.node_id = node_id
    /\ \/ n.parent = "-"
       \/ k > 0 /\ C26_ReachesRoot(n.parent, k - 1)

\* the out-messages of the transaction of a node
C26_OutMsgs(n) ==
  IF n.emulated THEN Range(EmulatedTx(n.node_id).out_msgs)
  ELSE Range(Tx[n.tx].out_msgs)

\* C26: the trace TraceTailEmulator builds is a tree: a node is identified by
\* the hash of its in-message and appears once, the only node without a
\* parent is the one of the starting transaction, every other node hangs
\* under the node whose transaction sent its in-message, and the parents lead
\* to the root; every node with emulated = false carries a transaction
\* observed in the block, a value of tx_by_in_msg_hash_, whose in-message is
\* the node's id
C26_TraceIsTree ==
  /\ \A n1, n2 \in nodes : n1.node_id = n2.node_id => n1 = n2
  /\ \A n \in nodes :
       /\ n.parent = "-" <=> n.node_id = Tx[tail.tx_].in_msg_hash
       /\ n.parent # "-"
          => \E p \in nodes : p.node_id = n.parent /\ n.node_id \in C26_OutMsgs(p)
       /\ C26_ReachesRoot(n.node_id, Cardinality(nodes))
       /\ ~n.emulated
          => /\ n.tx \in tail.tx_by_in_msg_hash_ \cup {tail.tx_}
             /\ Tx[n.tx].in_msg_hash = n.node_id

\* a finished trace with an observed child and an emulated one
C26_Witness ==
  /\ tail.pc = "done"
  /\ \E n \in nodes : ~n.emulated /\ n.parent # "-"
  /\ \E n \in nodes : n.emulated

\* the number of emulated nodes from the node with this id up to the first
\* observed one
RECURSIVE C27_Level(_)
C27_Level(node_id) ==
  LET n == CHOOSE x \in nodes : x.node_id = node_id
  IN IF n.emulated THEN 1 + C27_Level(n.parent) ELSE 0

C28_Prefix(seq1, seq2) ==
  /\ Len(seq1) <= Len(seq2)
  /\ \A i \in DOMAIN seq1 : seq1[i] = seq2[i]

\* C28: within one trace one TraceEmulatorImpl exists per destination
\* address, created once; the requests for an address are emulated one at a
\* time in the order they were sent, and each emulation starts from the
\* account as the earlier emulations of that address left it (a failed
\* emulation leaves the account as it was)
C28_OneWorkerPerAddress ==
  \A a \in Accounts :
    /\ actors_created[a] <= 1
    /\ a \in emulator_actors_ <=> actors_created[a] = 1
    /\ (asked[a] # <<>>) => a \in emulator_actors_
    /\ C28_Prefix(served[a], asked[a])
    /\ \A i \in DOMAIN served[a] : \A n \in nodes :
         n.node_id = served[a][i]
         => /\ n.emulated
            /\ n.seen = Cardinality({j \in 1..(i - 1) :
                                      \E e \in nodes : e.node_id = served[a][j]})

\* the worker of one address has emulated two messages
C28_Witness ==
  \E a \in Accounts :
    /\ actors_created[a] = 1
    /\ Len(served[a]) >= 2
    /\ \E n \in nodes : n.node_id = served[a][2] /\ n.seen = 1

\* C29: every read or write of emulated_accounts_ and of emulator_actors_ is
\* made by an actor that holds emulated_accounts_mutex_
C29_AccessUnderLock ==
  last_access # NoAccess => last_access.holder = last_access.actor

\* the stored nodes under the observed nodes of the trace that is inserted:
\* what the stored out-message references lead to, in the store before the
\* insert
C30_OldSubtree ==
  LET observed == {n.key : n \in {x \in insert_result'.trace.nodes : ~x.emulated}}
      stored == {k \in KvKeys : kv_tx[k] # NoStored}
      leads(S) == S \cup {k \in stored : \E p \in S, i \in 1..2 :
                            /\ i \in DOMAIN kv_tx[p].out_msgs
                            /\ kv_tx[p].out_msgs[i] = k}
  IN leads(leads(leads(leads(observed \cap stored))))

\* the stored nodes of the old subtree that the latest tree does not have
C30_OnlyOld == C30_OldSubtree \ {n.key : n \in insert_result'.trace.nodes}

\* the accounts that only nodes of the old subtree have: no node of the latest
\* tree and no stored node outside the old subtree is theirs
C30_OnlyOldAccounts ==
  {a \in KvAccounts :
     /\ \E k \in C30_OldSubtree : kv_tx[k].account = a
     /\ \A n \in insert_result'.trace.nodes : n.account # a
     /\ \A k \in KvKeys \ C30_OldSubtree : kv_tx[k].account # a}

\* a trace is inserted again over its stored emulation
C30_Reinserted == insert_result'.status = "ok" /\ C30_OldSubtree # {}

\* C30 (transaction fields): after a re-insert no transaction field of the old
\* subtree under an observed node survives, and the nodes of the latest tree
\* are stored
C30_TxFieldsDeleted ==
  [][C30_Reinserted =>
       /\ \A k \in C30_OnlyOld : kv_tx'[k] = NoStored
       /\ \A n \in insert_result'.trace.nodes : kv_tx'[n.key] = n]_vars

\* C30 (sorted sets): after a re-insert no by-address member of the old
\* subtree under an observed node survives
C30_MembersDeleted ==
  [][C30_Reinserted =>
       \A k \in C30_OnlyOld : \A a \in KvAccounts : <<a, k>> \notin kv_by_addr']_vars

\* C30: re-inserting a trace whose earlier emulation is stored leaves only the
\* latest tree: of the old subtree under every observed node no transaction
\* field, no by-address member and no interface field of an account that only
\* the old subtree has survives
C30_OnlyLatestTree ==
  [][C30_Reinserted =>
       /\ \A k \in C30_OnlyOld :
            /\ kv_tx'[k] = NoStored
            /\ \A a \in KvAccounts : <<a, k>> \notin kv_by_addr'
       /\ \A a \in C30_OnlyOldAccounts : a \notin kv_interfaces']_vars

\* how often a call is made by the latest start_up
C31_Count(name) ==
  Cardinality({i \in DOMAIN insert_result'.calls : insert_result'.calls[i] = name})

\* the place of the one call of that name in the latest start_up
C31_At(name) ==
  CHOOSE i \in DOMAIN insert_result'.calls : insert_result'.calls[i] = name

C33_BlockCompletes ==
  (mc.pc = "parsing") ~> (mc.pc \in {"finished", "failed"})

\* C34: every transaction of the block that was assigned an initial_msg_hash
\* is a node that is not emulated of the trace of that id: one of the
\* emulators created for the block has that id and reaches the transaction
\* from the transaction it starts from
C34_AssignedTxInTrace ==
  mc.pc = "emulating" =>
    \A t \in mc.txs_ :
      initial_msg_hash[t] # None =>
        \E start \in mc.txs_ :
          /\ emulation[start] # "none"
          /\ initial_msg_hash[start] = initial_msg_hash[t]
          /\ t \in observed_subtree(start, mc.txs_)

\* in a trace that is over the nodes that are not emulated are the observed
\* subtree of the transaction the emulator started from
C34_SubtreeIsWhatTailCollects ==
  tail.pc = "done" =>
    {n.tx : n \in {x \in nodes : ~x.emulated}}
      = observed_subtree(tail.tx_, tail.tx_by_in_msg_hash_)

\* C35: a child slot of a trace node is written only after the children
\* vector of the node was resized to the number of its child messages: the
\* index of every write is within the size the vector has at that moment,
\* whether the lambda runs in TraceTailEmulator or in a TraceEmulatorImpl
C35_ChildWriteInBounds ==
  child_write # NoWrite => child_write.child_ind <= child_write.size

\* the writes made from within the handlers of TraceTailEmulator, for the
\* observed children, are within the vector
C35_TailWritesInBounds ==
  (child_write # NoWrite /\ child_write.actor = "tail")
  => child_write.child_ind <= child_write.size

\* the out-messages of an observed node that emulate_tx does not skip
C36_Sent(node_id) ==
  InternalMsgs(Tx[(CHOOSE n \in nodes : n.node_id = node_id).tx].out_msgs)

C37_ErrorLeavesBlock ==
  [][\A t \in Txs :
       (emulation[t] = "emulating" /\ emulation'[t] = "error")
       => /\ initial_msg_hash[t] \notin trace_ids_in_progress_'
          /\ traces_cnt_' = traces_cnt_]_vars

\* a trace that failed stays failed while its block is emulated
C37_ErrorIsFinal ==
  [][\A t \in Txs :
       (emulation[t] = "error" /\ mc'.seqno = mc.seqno) => emulation'[t] = "error"]_vars

\* the transactions of the block McBlockEmulator works on
C38_BlockTxs == {t \in Txs : block_of[t] = mc.seqno}

\* process_txs ran in this step: initial_msg_hash values were assigned and
\* the emulations were started
C38_ProcessTxs ==
  \/ initial_msg_hash' # initial_msg_hash
  \/ interblock_trace_ids_' # interblock_trace_ids_
  \/ \E t \in Txs : emulation[t] = "none" /\ emulation'[t] = "emulating"
  \/ mc'.seqno = mc.seqno /\ mc.pc # "emulating" /\ mc'.pc = "emulating"

C38_FailedAfterParsed ==
  /\ mc.pc = "failed"
  /\ mc.txs_ # {}
  /\ mc.blocks_left_to_parse_ # {}

\* C39: NFTItemDetector::detect is governed by the verdict stored for the
\* code hash under IT_NFT_ITEM alone: unless that verdict is false the
\* detection goes on to the entity cache check, whatever is stored for the
\* code hash under IT_NFT_COLLECTION
C39_ItemGovernedByItemTag ==
  [][ (/\ call.pc = "check_interface"
       /\ call.kind = "NFTItem"
       /\ call'.pc # "check_interface"
       /\ check_interface(call.code, "IT_NFT_ITEM") # "false")
      => call'.pc = "detect_continue" ]_vars

\* the precheck of the other three detectors consults their own tag: a
\* false verdict stored under another tag alone does not reject the call
C39_OthersByOwnTag ==
  [][ (/\ call.pc = "check_interface"
       /\ call.kind # "NFTItem"
       /\ call'.pc # "check_interface"
       /\ check_interface(call.code, C14_Interface(call.kind)) # "false")
      => call'.pc = "detect_continue" ]_vars

\* an NFT item detection was rejected with nothing stored under IT_NFT_ITEM
\* and false stored under IT_NFT_COLLECTION
C39_RejectedByCollectionVerdict ==
  /\ result.status = "error"
  /\ result.error.code = "SMC_INTERFACE_PARSE_ERROR"
  /\ call.pc = "idle"
  /\ calls_made = 1
  /\ \E c \in CodeHashes :
       /\ check_interface(c, "IT_NFT_ITEM") = "NOT_FOUND"
       /\ check_interface(c, "IT_NFT_COLLECTION") = "false"
  /\ result.kind = "NFTItem"

\* the fields of the nodes that are reached from the fields keys through the
\* out-messages of the nodes that decode
RECURSIVE C40_Reach(_, _)
C40_Reach(hset, keys) ==
  LET decoded == {k \in keys : ~Unmarshal(hset[k]).err}
      sent == UNION {Range(Unmarshal(hset[k]).node.OutMsgs) : k \in decoded}
      next == keys \cup ({EncodeToString(m) : m \in sent} \cap DOMAIN hset)
  IN IF next = keys THEN keys ELSE C40_Reach(hset, next)

\* the root node entry is missing
C40_RootMissing(hset) ==
  \/ root_node \notin DOMAIN hset
  \/ hset[root_node] \notin DOMAIN hset
  \/ hset[hset[root_node]] = <<>>

\* the tree short is the node stored under key with one child for every
\* out-message that has a field in the hash, in the order of the out-messages
RECURSIVE C40_TreeOk(_, _, _)
C40_TreeOk(hset, short, key) ==
  LET transaction == Unmarshal(hset[key]).node
      present == SelectSeq(transaction.OutMsgs,
                           LAMBDA m : EncodeToString(m) \in DOMAIN hset)
  IN /\ short.TransactionHash = transaction.Hash
     /\ short.InMsgHash = transaction.InMsg
     /\ Len(short.Children) = Len(present)
     /\ \A i \in DOMAIN present :
          C40_TreeOk(hset, short.Children[i], EncodeToString(present[i]))

\* the nodes of a tree
RECURSIVE C40_Nodes(_)
C40_Nodes(short) ==
  {short} \cup UNION {C40_Nodes(short.Children[i]) : i \in DOMAIN short.Children}

\* C40: ConvertHsetToTraceNodeShort returns an error, no tree and no map when
\* the root node entry is missing or a node reached from the root fails to
\* decode; otherwise it returns the tree in which every node has one child
\* per out-message whose field exists in the hash, in out-message order, and
\* txMap holds the transactions of the nodes of that tree and no other
C40_ConvertedTree ==
  conversion.pc = "returned" =>
    LET hset == conversion.hset
        returned == conversion.result
        failing == \/ C40_RootMissing(hset)
                   \/ \E k \in C40_Reach(hset, {hset[root_node]}) : Unmarshal(hset[k]).err
    IN IF failing
       THEN returned.err /\ returned.node = nil /\ returned.txMap = nil
       ELSE /\ ~returned.err
            /\ C40_TreeOk(hset, returned.node, hset[root_node])
            /\ DOMAIN returned.txMap = {n.TransactionHash : n \in C40_Nodes(returned.node)}
            /\ \A h \in DOMAIN returned.txMap :
                 /\ returned.txMap[h].Hash = h
                 /\ returned.txMap[h] =
                      Unmarshal(hset[EncodeToString(returned.txMap[h].InMsg)]).node

\* a tree was returned whose root skipped an out-message without a field and
\* kept a later one, and which has a grandchild
C40_Witness ==
  /\ conversion.pc = "returned"
  /\ ~conversion.result.err
  /\ EncodeToString(2) \notin DOMAIN conversion.hset
  /\ Len(conversion.result.node.Children) = 1
  /\ conversion.result.node.Children[1].InMsgHash = 3

\* a tree of three levels was returned
C40_WitnessDeep ==
  /\ conversion.pc = "returned"
  /\ ~conversion.result.err
  /\ Len(conversion.result.node.Children) = 2
  /\ Len(conversion.result.node.Children[1].Children) = 1

\* the conversion failed on a node two levels under the root
C40_WitnessError ==
  /\ conversion.pc = "returned"
  /\ conversion.result.err
  /\ ~C40_RootMissing(conversion.hset)
  /\ ~Unmarshal(conversion.hset[conversion.hset[root_node]]).err
  /\ \A m \in {2, 3} :
       EncodeToString(m) \in DOMAIN conversion.hset
       => ~Unmarshal(conversion.hset[EncodeToString(m)]).err

====
